---- MODULE Spec2Model ----
(***************************************************************************)
(* DXGITypeConversions.cpp: the two lazily built format tables             *)
(* (FmtToDXGIFmtMap, DXGIFmtToFmtMap), the bind-flag format corrector      *)
(* CorrectDXGIFormat, and the calls TexFormatToDXGI_Format and             *)
(* DXGI_FormatToTexFormat, single-threaded (Spec) and under concurrent     *)
(* first use by several threads (SpecConc).                                *)
(***************************************************************************)
EXTENDS Integers, Sequences, FiniteSets, TLC

(***************************************************************************)
(* Enumerations.  The table literal of TexFormatToDXGI_Format lists the    *)
(* engine formats in enumeration order; six more engine formats follow     *)
(* TEX_FORMAT_BC7_UNORM_SRGB (TEX_FORMAT_NUM_FORMATS == 106).  An          *)
(* enumerator's value is its position, counted from 0.                     *)
(***************************************************************************)
TEXTURE_FORMAT == <<
    "TEX_FORMAT_UNKNOWN", "TEX_FORMAT_RGBA32_TYPELESS", "TEX_FORMAT_RGBA32_FLOAT",
    "TEX_FORMAT_RGBA32_UINT", "TEX_FORMAT_RGBA32_SINT", "TEX_FORMAT_RGB32_TYPELESS",
    "TEX_FORMAT_RGB32_FLOAT", "TEX_FORMAT_RGB32_UINT", "TEX_FORMAT_RGB32_SINT",
    "TEX_FORMAT_RGBA16_TYPELESS", "TEX_FORMAT_RGBA16_FLOAT", "TEX_FORMAT_RGBA16_UNORM",
    "TEX_FORMAT_RGBA16_UINT", "TEX_FORMAT_RGBA16_SNORM", "TEX_FORMAT_RGBA16_SINT",
    "TEX_FORMAT_RG32_TYPELESS", "TEX_FORMAT_RG32_FLOAT", "TEX_FORMAT_RG32_UINT",
    "TEX_FORMAT_RG32_SINT", "TEX_FORMAT_R32G8X24_TYPELESS", "TEX_FORMAT_D32_FLOAT_S8X24_UINT",
    "TEX_FORMAT_R32_FLOAT_X8X24_TYPELESS", "TEX_FORMAT_X32_TYPELESS_G8X24_UINT",
    "TEX_FORMAT_RGB10A2_TYPELESS", "TEX_FORMAT_RGB10A2_UNORM", "TEX_FORMAT_RGB10A2_UINT",
    "TEX_FORMAT_R11G11B10_FLOAT", "TEX_FORMAT_RGBA8_TYPELESS", "TEX_FORMAT_RGBA8_UNORM",
    "TEX_FORMAT_RGBA8_UNORM_SRGB", "TEX_FORMAT_RGBA8_UINT", "TEX_FORMAT_RGBA8_SNORM",
    "TEX_FORMAT_RGBA8_SINT", "TEX_FORMAT_RG16_TYPELESS", "TEX_FORMAT_RG16_FLOAT",
    "TEX_FORMAT_RG16_UNORM", "TEX_FORMAT_RG16_UINT", "TEX_FORMAT_RG16_SNORM",
    "TEX_FORMAT_RG16_SINT", "TEX_FORMAT_R32_TYPELESS", "TEX_FORMAT_D32_FLOAT",
    "TEX_FORMAT_R32_FLOAT", "TEX_FORMAT_R32_UINT", "TEX_FORMAT_R32_SINT",
    "TEX_FORMAT_R24G8_TYPELESS", "TEX_FORMAT_D24_UNORM_S8_UINT",
    "TEX_FORMAT_R24_UNORM_X8_TYPELESS", "TEX_FORMAT_X24_TYPELESS_G8_UINT",
    "TEX_FORMAT_RG8_TYPELESS", "TEX_FORMAT_RG8_UNORM", "TEX_FORMAT_RG8_UINT",
    "TEX_FORMAT_RG8_SNORM", "TEX_FORMAT_RG8_SINT", "TEX_FORMAT_R16_TYPELESS",
    "TEX_FORMAT_R16_FLOAT", "TEX_FORMAT_D16_UNORM", "TEX_FORMAT_R16_UNORM", "TEX_FORMAT_R16_UINT",
    "TEX_FORMAT_R16_SNORM", "TEX_FORMAT_R16_SINT", "TEX_FORMAT_R8_TYPELESS", "TEX_FORMAT_R8_UNORM",
    "TEX_FORMAT_R8_UINT", "TEX_FORMAT_R8_SNORM", "TEX_FORMAT_R8_SINT", "TEX_FORMAT_A8_UNORM",
    "TEX_FORMAT_R1_UNORM", "TEX_FORMAT_RGB9E5_SHAREDEXP", "TEX_FORMAT_RG8_B8G8_UNORM",
    "TEX_FORMAT_G8R8_G8B8_UNORM", "TEX_FORMAT_BC1_TYPELESS", "TEX_FORMAT_BC1_UNORM",
    "TEX_FORMAT_BC1_UNORM_SRGB", "TEX_FORMAT_BC2_TYPELESS", "TEX_FORMAT_BC2_UNORM",
    "TEX_FORMAT_BC2_UNORM_SRGB", "TEX_FORMAT_BC3_TYPELESS", "TEX_FORMAT_BC3_UNORM",
    "TEX_FORMAT_BC3_UNORM_SRGB", "TEX_FORMAT_BC4_TYPELESS", "TEX_FORMAT_BC4_UNORM",
    "TEX_FORMAT_BC4_SNORM", "TEX_FORMAT_BC5_TYPELESS", "TEX_FORMAT_BC5_UNORM",
    "TEX_FORMAT_BC5_SNORM", "TEX_FORMAT_B5G6R5_UNORM", "TEX_FORMAT_B5G5R5A1_UNORM",
    "TEX_FORMAT_BGRA8_UNORM", "TEX_FORMAT_BGRX8_UNORM", "TEX_FORMAT_R10G10B10_XR_BIAS_A2_UNORM",
    "TEX_FORMAT_BGRA8_TYPELESS", "TEX_FORMAT_BGRA8_UNORM_SRGB", "TEX_FORMAT_BGRX8_TYPELESS",
    "TEX_FORMAT_BGRX8_UNORM_SRGB", "TEX_FORMAT_BC6H_TYPELESS", "TEX_FORMAT_BC6H_UF16",
    "TEX_FORMAT_BC6H_SF16", "TEX_FORMAT_BC7_TYPELESS", "TEX_FORMAT_BC7_UNORM",
    "TEX_FORMAT_BC7_UNORM_SRGB", "TEX_FORMAT_ETC2_RGB8_UNORM", "TEX_FORMAT_ETC2_RGB8_UNORM_SRGB",
    "TEX_FORMAT_ETC2_RGB8A1_UNORM", "TEX_FORMAT_ETC2_RGB8A1_UNORM_SRGB",
    "TEX_FORMAT_ETC2_RGBA8_UNORM", "TEX_FORMAT_ETC2_RGBA8_UNORM_SRGB"
>>

DXGI_FORMAT == <<
    "DXGI_FORMAT_UNKNOWN", "DXGI_FORMAT_R32G32B32A32_TYPELESS", "DXGI_FORMAT_R32G32B32A32_FLOAT",
    "DXGI_FORMAT_R32G32B32A32_UINT", "DXGI_FORMAT_R32G32B32A32_SINT",
    "DXGI_FORMAT_R32G32B32_TYPELESS", "DXGI_FORMAT_R32G32B32_FLOAT", "DXGI_FORMAT_R32G32B32_UINT",
    "DXGI_FORMAT_R32G32B32_SINT", "DXGI_FORMAT_R16G16B16A16_TYPELESS",
    "DXGI_FORMAT_R16G16B16A16_FLOAT", "DXGI_FORMAT_R16G16B16A16_UNORM",
    "DXGI_FORMAT_R16G16B16A16_UINT", "DXGI_FORMAT_R16G16B16A16_SNORM",
    "DXGI_FORMAT_R16G16B16A16_SINT", "DXGI_FORMAT_R32G32_TYPELESS", "DXGI_FORMAT_R32G32_FLOAT",
    "DXGI_FORMAT_R32G32_UINT", "DXGI_FORMAT_R32G32_SINT", "DXGI_FORMAT_R32G8X24_TYPELESS",
    "DXGI_FORMAT_D32_FLOAT_S8X24_UINT", "DXGI_FORMAT_R32_FLOAT_X8X24_TYPELESS",
    "DXGI_FORMAT_X32_TYPELESS_G8X24_UINT", "DXGI_FORMAT_R10G10B10A2_TYPELESS",
    "DXGI_FORMAT_R10G10B10A2_UNORM", "DXGI_FORMAT_R10G10B10A2_UINT", "DXGI_FORMAT_R11G11B10_FLOAT",
    "DXGI_FORMAT_R8G8B8A8_TYPELESS", "DXGI_FORMAT_R8G8B8A8_UNORM",
    "DXGI_FORMAT_R8G8B8A8_UNORM_SRGB", "DXGI_FORMAT_R8G8B8A8_UINT", "DXGI_FORMAT_R8G8B8A8_SNORM",
    "DXGI_FORMAT_R8G8B8A8_SINT", "DXGI_FORMAT_R16G16_TYPELESS", "DXGI_FORMAT_R16G16_FLOAT",
    "DXGI_FORMAT_R16G16_UNORM", "DXGI_FORMAT_R16G16_UINT", "DXGI_FORMAT_R16G16_SNORM",
    "DXGI_FORMAT_R16G16_SINT", "DXGI_FORMAT_R32_TYPELESS", "DXGI_FORMAT_D32_FLOAT",
    "DXGI_FORMAT_R32_FLOAT", "DXGI_FORMAT_R32_UINT", "DXGI_FORMAT_R32_SINT",
    "DXGI_FORMAT_R24G8_TYPELESS", "DXGI_FORMAT_D24_UNORM_S8_UINT",
    "DXGI_FORMAT_R24_UNORM_X8_TYPELESS", "DXGI_FORMAT_X24_TYPELESS_G8_UINT",
    "DXGI_FORMAT_R8G8_TYPELESS", "DXGI_FORMAT_R8G8_UNORM", "DXGI_FORMAT_R8G8_UINT",
    "DXGI_FORMAT_R8G8_SNORM", "DXGI_FORMAT_R8G8_SINT", "DXGI_FORMAT_R16_TYPELESS",
    "DXGI_FORMAT_R16_FLOAT", "DXGI_FORMAT_D16_UNORM", "DXGI_FORMAT_R16_UNORM",
    "DXGI_FORMAT_R16_UINT", "DXGI_FORMAT_R16_SNORM", "DXGI_FORMAT_R16_SINT",
    "DXGI_FORMAT_R8_TYPELESS", "DXGI_FORMAT_R8_UNORM", "DXGI_FORMAT_R8_UINT",
    "DXGI_FORMAT_R8_SNORM", "DXGI_FORMAT_R8_SINT", "DXGI_FORMAT_A8_UNORM", "DXGI_FORMAT_R1_UNORM",
    "DXGI_FORMAT_R9G9B9E5_SHAREDEXP", "DXGI_FORMAT_R8G8_B8G8_UNORM", "DXGI_FORMAT_G8R8_G8B8_UNORM",
    "DXGI_FORMAT_BC1_TYPELESS", "DXGI_FORMAT_BC1_UNORM", "DXGI_FORMAT_BC1_UNORM_SRGB",
    "DXGI_FORMAT_BC2_TYPELESS", "DXGI_FORMAT_BC2_UNORM", "DXGI_FORMAT_BC2_UNORM_SRGB",
    "DXGI_FORMAT_BC3_TYPELESS", "DXGI_FORMAT_BC3_UNORM", "DXGI_FORMAT_BC3_UNORM_SRGB",
    "DXGI_FORMAT_BC4_TYPELESS", "DXGI_FORMAT_BC4_UNORM", "DXGI_FORMAT_BC4_SNORM",
    "DXGI_FORMAT_BC5_TYPELESS", "DXGI_FORMAT_BC5_UNORM", "DXGI_FORMAT_BC5_SNORM",
    "DXGI_FORMAT_B5G6R5_UNORM", "DXGI_FORMAT_B5G5R5A1_UNORM", "DXGI_FORMAT_B8G8R8A8_UNORM",
    "DXGI_FORMAT_B8G8R8X8_UNORM", "DXGI_FORMAT_R10G10B10_XR_BIAS_A2_UNORM",
    "DXGI_FORMAT_B8G8R8A8_TYPELESS", "DXGI_FORMAT_B8G8R8A8_UNORM_SRGB",
    "DXGI_FORMAT_B8G8R8X8_TYPELESS", "DXGI_FORMAT_B8G8R8X8_UNORM_SRGB",
    "DXGI_FORMAT_BC6H_TYPELESS", "DXGI_FORMAT_BC6H_UF16", "DXGI_FORMAT_BC6H_SF16",
    "DXGI_FORMAT_BC7_TYPELESS", "DXGI_FORMAT_BC7_UNORM", "DXGI_FORMAT_BC7_UNORM_SRGB",
    "DXGI_FORMAT_AYUV", "DXGI_FORMAT_Y410", "DXGI_FORMAT_Y416", "DXGI_FORMAT_NV12",
    "DXGI_FORMAT_P010", "DXGI_FORMAT_P016", "DXGI_FORMAT_420_OPAQUE", "DXGI_FORMAT_YUY2",
    "DXGI_FORMAT_Y210", "DXGI_FORMAT_Y216", "DXGI_FORMAT_NV11", "DXGI_FORMAT_AI44",
    "DXGI_FORMAT_IA44", "DXGI_FORMAT_P8", "DXGI_FORMAT_A8P8", "DXGI_FORMAT_B4G4R4A4_UNORM"
>>

TEX_FORMAT_NUM_FORMATS == 106

DXGI_FORMAT_B4G4R4A4_UNORM == 115

TexFormatValue == [n \in {TEXTURE_FORMAT[i] : i \in 1..Len(TEXTURE_FORMAT)} |->
    (CHOOSE i \in 1..Len(TEXTURE_FORMAT) : TEXTURE_FORMAT[i] = n) - 1]

DXGIFormatValue == [n \in {DXGI_FORMAT[i] : i \in 1..Len(DXGI_FORMAT)} |->
    (CHOOSE i \in 1..Len(DXGI_FORMAT) : DXGI_FORMAT[i] = n) - 1]

TEX_FORMAT_UNKNOWN == TexFormatValue["TEX_FORMAT_UNKNOWN"]
TEX_FORMAT_RGBA8_UNORM == TexFormatValue["TEX_FORMAT_RGBA8_UNORM"]
TEX_FORMAT_D32_FLOAT == TexFormatValue["TEX_FORMAT_D32_FLOAT"]
TEX_FORMAT_BC7_UNORM_SRGB == TexFormatValue["TEX_FORMAT_BC7_UNORM_SRGB"]
TEX_FORMAT_ETC2_RGB8_UNORM == TexFormatValue["TEX_FORMAT_ETC2_RGB8_UNORM"]
TEX_FORMAT_ETC2_RGBA8_UNORM_SRGB == TexFormatValue["TEX_FORMAT_ETC2_RGBA8_UNORM_SRGB"]

DXGI_FORMAT_UNKNOWN == DXGIFormatValue["DXGI_FORMAT_UNKNOWN"]
DXGI_FORMAT_R8G8B8A8_UNORM == DXGIFormatValue["DXGI_FORMAT_R8G8B8A8_UNORM"]
DXGI_FORMAT_B8G8R8A8_UNORM == DXGIFormatValue["DXGI_FORMAT_B8G8R8A8_UNORM"]
DXGI_FORMAT_BC7_UNORM_SRGB == DXGIFormatValue["DXGI_FORMAT_BC7_UNORM_SRGB"]
DXGI_FORMAT_R32_TYPELESS == DXGIFormatValue["DXGI_FORMAT_R32_TYPELESS"]
DXGI_FORMAT_R32_FLOAT == DXGIFormatValue["DXGI_FORMAT_R32_FLOAT"]
DXGI_FORMAT_D32_FLOAT == DXGIFormatValue["DXGI_FORMAT_D32_FLOAT"]
DXGI_FORMAT_R24G8_TYPELESS == DXGIFormatValue["DXGI_FORMAT_R24G8_TYPELESS"]
DXGI_FORMAT_D24_UNORM_S8_UINT == DXGIFormatValue["DXGI_FORMAT_D24_UNORM_S8_UINT"]
DXGI_FORMAT_R24_UNORM_X8_TYPELESS == DXGIFormatValue["DXGI_FORMAT_R24_UNORM_X8_TYPELESS"]
DXGI_FORMAT_X24_TYPELESS_G8_UINT == DXGIFormatValue["DXGI_FORMAT_X24_TYPELESS_G8_UINT"]
DXGI_FORMAT_R16_TYPELESS == DXGIFormatValue["DXGI_FORMAT_R16_TYPELESS"]
DXGI_FORMAT_R16_UNORM == DXGIFormatValue["DXGI_FORMAT_R16_UNORM"]
DXGI_FORMAT_D16_UNORM == DXGIFormatValue["DXGI_FORMAT_D16_UNORM"]
DXGI_FORMAT_R32G8X24_TYPELESS == DXGIFormatValue["DXGI_FORMAT_R32G8X24_TYPELESS"]
DXGI_FORMAT_D32_FLOAT_S8X24_UINT == DXGIFormatValue["DXGI_FORMAT_D32_FLOAT_S8X24_UINT"]
DXGI_FORMAT_R32_FLOAT_X8X24_TYPELESS == DXGIFormatValue["DXGI_FORMAT_R32_FLOAT_X8X24_TYPELESS"]
DXGI_FORMAT_X32_TYPELESS_G8X24_UINT == DXGIFormatValue["DXGI_FORMAT_X32_TYPELESS_G8X24_UINT"]

(***************************************************************************)
(* Bind flags: single bits of a Uint32.                                    *)
(***************************************************************************)
BIND_SHADER_RESOURCE == 2^3
BIND_RENDER_TARGET == 2^5
BIND_DEPTH_STENCIL == 2^6
BIND_UNORDERED_ACCESS == 2^7

\* BindFlags & Flag, for a single-bit Flag
HasFlag(BindFlags, Flag) == (BindFlags \div Flag) % 2 = 1

(***************************************************************************)
(* The table literal of TexFormatToDXGI_Format, one pair per assignment,   *)
(* in source order.                                                        *)
(***************************************************************************)
FormatMapInit == <<
    <<"TEX_FORMAT_UNKNOWN", "DXGI_FORMAT_UNKNOWN">>,
    <<"TEX_FORMAT_RGBA32_TYPELESS", "DXGI_FORMAT_R32G32B32A32_TYPELESS">>,
    <<"TEX_FORMAT_RGBA32_FLOAT", "DXGI_FORMAT_R32G32B32A32_FLOAT">>,
    <<"TEX_FORMAT_RGBA32_UINT", "DXGI_FORMAT_R32G32B32A32_UINT">>,
    <<"TEX_FORMAT_RGBA32_SINT", "DXGI_FORMAT_R32G32B32A32_SINT">>,
    <<"TEX_FORMAT_RGB32_TYPELESS", "DXGI_FORMAT_R32G32B32_TYPELESS">>,
    <<"TEX_FORMAT_RGB32_FLOAT", "DXGI_FORMAT_R32G32B32_FLOAT">>,
    <<"TEX_FORMAT_RGB32_UINT", "DXGI_FORMAT_R32G32B32_UINT">>,
    <<"TEX_FORMAT_RGB32_SINT", "DXGI_FORMAT_R32G32B32_SINT">>,
    <<"TEX_FORMAT_RGBA16_TYPELESS", "DXGI_FORMAT_R16G16B16A16_TYPELESS">>,
    <<"TEX_FORMAT_RGBA16_FLOAT", "DXGI_FORMAT_R16G16B16A16_FLOAT">>,
    <<"TEX_FORMAT_RGBA16_UNORM", "DXGI_FORMAT_R16G16B16A16_UNORM">>,
    <<"TEX_FORMAT_RGBA16_UINT", "DXGI_FORMAT_R16G16B16A16_UINT">>,
    <<"TEX_FORMAT_RGBA16_SNORM", "DXGI_FORMAT_R16G16B16A16_SNORM">>,
    <<"TEX_FORMAT_RGBA16_SINT", "DXGI_FORMAT_R16G16B16A16_SINT">>,
    <<"TEX_FORMAT_RG32_TYPELESS", "DXGI_FORMAT_R32G32_TYPELESS">>,
    <<"TEX_FORMAT_RG32_FLOAT", "DXGI_FORMAT_R32G32_FLOAT">>,
    <<"TEX_FORMAT_RG32_UINT", "DXGI_FORMAT_R32G32_UINT">>,
    <<"TEX_FORMAT_RG32_SINT", "DXGI_FORMAT_R32G32_SINT">>,
    <<"TEX_FORMAT_R32G8X24_TYPELESS", "DXGI_FORMAT_R32G8X24_TYPELESS">>,
    <<"TEX_FORMAT_D32_FLOAT_S8X24_UINT", "DXGI_FORMAT_D32_FLOAT_S8X24_UINT">>,
    <<"TEX_FORMAT_R32_FLOAT_X8X24_TYPELESS", "DXGI_FORMAT_R32_FLOAT_X8X24_TYPELESS">>,
    <<"TEX_FORMAT_X32_TYPELESS_G8X24_UINT", "DXGI_FORMAT_X32_TYPELESS_G8X24_UINT">>,
    <<"TEX_FORMAT_RGB10A2_TYPELESS", "DXGI_FORMAT_R10G10B10A2_TYPELESS">>,
    <<"TEX_FORMAT_RGB10A2_UNORM", "DXGI_FORMAT_R10G10B10A2_UNORM">>,
    <<"TEX_FORMAT_RGB10A2_UINT", "DXGI_FORMAT_R10G10B10A2_UINT">>,
    <<"TEX_FORMAT_R11G11B10_FLOAT", "DXGI_FORMAT_R11G11B10_FLOAT">>,
    <<"TEX_FORMAT_RGBA8_TYPELESS", "DXGI_FORMAT_R8G8B8A8_TYPELESS">>,
    <<"TEX_FORMAT_RGBA8_UNORM", "DXGI_FORMAT_R8G8B8A8_UNORM">>,
    <<"TEX_FORMAT_RGBA8_UNORM_SRGB", "DXGI_FORMAT_R8G8B8A8_UNORM_SRGB">>,
    <<"TEX_FORMAT_RGBA8_UINT", "DXGI_FORMAT_R8G8B8A8_UINT">>,
    <<"TEX_FORMAT_RGBA8_SNORM", "DXGI_FORMAT_R8G8B8A8_SNORM">>,
    <<"TEX_FORMAT_RGBA8_SINT", "DXGI_FORMAT_R8G8B8A8_SINT">>,
    <<"TEX_FORMAT_RG16_TYPELESS", "DXGI_FORMAT_R16G16_TYPELESS">>,
    <<"TEX_FORMAT_RG16_FLOAT", "DXGI_FORMAT_R16G16_FLOAT">>,
    <<"TEX_FORMAT_RG16_UNORM", "DXGI_FORMAT_R16G16_UNORM">>,
    <<"TEX_FORMAT_RG16_UINT", "DXGI_FORMAT_R16G16_UINT">>,
    <<"TEX_FORMAT_RG16_SNORM", "DXGI_FORMAT_R16G16_SNORM">>,
    <<"TEX_FORMAT_RG16_SINT", "DXGI_FORMAT_R16G16_SINT">>,
    <<"TEX_FORMAT_R32_TYPELESS", "DXGI_FORMAT_R32_TYPELESS">>,
    <<"TEX_FORMAT_D32_FLOAT", "DXGI_FORMAT_D32_FLOAT">>,
    <<"TEX_FORMAT_R32_FLOAT", "DXGI_FORMAT_R32_FLOAT">>,
    <<"TEX_FORMAT_R32_UINT", "DXGI_FORMAT_R32_UINT">>,
    <<"TEX_FORMAT_R32_SINT", "DXGI_FORMAT_R32_SINT">>,
    <<"TEX_FORMAT_R24G8_TYPELESS", "DXGI_FORMAT_R24G8_TYPELESS">>,
    <<"TEX_FORMAT_D24_UNORM_S8_UINT", "DXGI_FORMAT_D24_UNORM_S8_UINT">>,
    <<"TEX_FORMAT_R24_UNORM_X8_TYPELESS", "DXGI_FORMAT_R24_UNORM_X8_TYPELESS">>,
    <<"TEX_FORMAT_X24_TYPELESS_G8_UINT", "DXGI_FORMAT_X24_TYPELESS_G8_UINT">>,
    <<"TEX_FORMAT_RG8_TYPELESS", "DXGI_FORMAT_R8G8_TYPELESS">>,
    <<"TEX_FORMAT_RG8_UNORM", "DXGI_FORMAT_R8G8_UNORM">>,
    <<"TEX_FORMAT_RG8_UINT", "DXGI_FORMAT_R8G8_UINT">>,
    <<"TEX_FORMAT_RG8_SNORM", "DXGI_FORMAT_R8G8_SNORM">>,
    <<"TEX_FORMAT_RG8_SINT", "DXGI_FORMAT_R8G8_SINT">>,
    <<"TEX_FORMAT_R16_TYPELESS", "DXGI_FORMAT_R16_TYPELESS">>,
    <<"TEX_FORMAT_R16_FLOAT", "DXGI_FORMAT_R16_FLOAT">>,
    <<"TEX_FORMAT_D16_UNORM", "DXGI_FORMAT_D16_UNORM">>,
    <<"TEX_FORMAT_R16_UNORM", "DXGI_FORMAT_R16_UNORM">>,
    <<"TEX_FORMAT_R16_UINT", "DXGI_FORMAT_R16_UINT">>,
    <<"TEX_FORMAT_R16_SNORM", "DXGI_FORMAT_R16_SNORM">>,
    <<"TEX_FORMAT_R16_SINT", "DXGI_FORMAT_R16_SINT">>,
    <<"TEX_FORMAT_R8_TYPELESS", "DXGI_FORMAT_R8_TYPELESS">>,
    <<"TEX_FORMAT_R8_UNORM", "DXGI_FORMAT_R8_UNORM">>,
    <<"TEX_FORMAT_R8_UINT", "DXGI_FORMAT_R8_UINT">>,
    <<"TEX_FORMAT_R8_SNORM", "DXGI_FORMAT_R8_SNORM">>,
    <<"TEX_FORMAT_R8_SINT", "DXGI_FORMAT_R8_SINT">>,
    <<"TEX_FORMAT_A8_UNORM", "DXGI_FORMAT_A8_UNORM">>,
    <<"TEX_FORMAT_R1_UNORM", "DXGI_FORMAT_R1_UNORM">>,
    <<"TEX_FORMAT_RGB9E5_SHAREDEXP", "DXGI_FORMAT_R9G9B9E5_SHAREDEXP">>,
    <<"TEX_FORMAT_RG8_B8G8_UNORM", "DXGI_FORMAT_R8G8_B8G8_UNORM">>,
    <<"TEX_FORMAT_G8R8_G8B8_UNORM", "DXGI_FORMAT_G8R8_G8B8_UNORM">>,
    <<"TEX_FORMAT_BC1_TYPELESS", "DXGI_FORMAT_BC1_TYPELESS">>,
    <<"TEX_FORMAT_BC1_UNORM", "DXGI_FORMAT_BC1_UNORM">>,
    <<"TEX_FORMAT_BC1_UNORM_SRGB", "DXGI_FORMAT_BC1_UNORM_SRGB">>,
    <<"TEX_FORMAT_BC2_TYPELESS", "DXGI_FORMAT_BC2_TYPELESS">>,
    <<"TEX_FORMAT_BC2_UNORM", "DXGI_FORMAT_BC2_UNORM">>,
    <<"TEX_FORMAT_BC2_UNORM_SRGB", "DXGI_FORMAT_BC2_UNORM_SRGB">>,
    <<"TEX_FORMAT_BC3_TYPELESS", "DXGI_FORMAT_BC3_TYPELESS">>,
    <<"TEX_FORMAT_BC3_UNORM", "DXGI_FORMAT_BC3_UNORM">>,
    <<"TEX_FORMAT_BC3_UNORM_SRGB", "DXGI_FORMAT_BC3_UNORM_SRGB">>,
    <<"TEX_FORMAT_BC4_TYPELESS", "DXGI_FORMAT_BC4_TYPELESS">>,
    <<"TEX_FORMAT_BC4_UNORM", "DXGI_FORMAT_BC4_UNORM">>,
    <<"TEX_FORMAT_BC4_SNORM", "DXGI_FORMAT_BC4_SNORM">>,
    <<"TEX_FORMAT_BC5_TYPELESS", "DXGI_FORMAT_BC5_TYPELESS">>,
    <<"TEX_FORMAT_BC5_UNORM", "DXGI_FORMAT_BC5_UNORM">>,
    <<"TEX_FORMAT_BC5_SNORM", "DXGI_FORMAT_BC5_SNORM">>,
    <<"TEX_FORMAT_B5G6R5_UNORM", "DXGI_FORMAT_B5G6R5_UNORM">>,
    <<"TEX_FORMAT_B5G5R5A1_UNORM", "DXGI_FORMAT_B5G5R5A1_UNORM">>,
    <<"TEX_FORMAT_BGRA8_UNORM", "DXGI_FORMAT_B8G8R8A8_UNORM">>,
    <<"TEX_FORMAT_BGRX8_UNORM", "DXGI_FORMAT_B8G8R8X8_UNORM">>,
    <<"TEX_FORMAT_R10G10B10_XR_BIAS_A2_UNORM", "DXGI_FORMAT_R10G10B10_XR_BIAS_A2_UNORM">>,
    <<"TEX_FORMAT_BGRA8_TYPELESS", "DXGI_FORMAT_B8G8R8A8_TYPELESS">>,
    <<"TEX_FORMAT_BGRA8_UNORM_SRGB", "DXGI_FORMAT_B8G8R8A8_UNORM_SRGB">>,
    <<"TEX_FORMAT_BGRX8_TYPELESS", "DXGI_FORMAT_B8G8R8X8_TYPELESS">>,
    <<"TEX_FORMAT_BGRX8_UNORM_SRGB", "DXGI_FORMAT_B8G8R8X8_UNORM_SRGB">>,
    <<"TEX_FORMAT_BC6H_TYPELESS", "DXGI_FORMAT_BC6H_TYPELESS">>,
    <<"TEX_FORMAT_BC6H_UF16", "DXGI_FORMAT_BC6H_UF16">>,
    <<"TEX_FORMAT_BC6H_SF16", "DXGI_FORMAT_BC6H_SF16">>,
    <<"TEX_FORMAT_BC7_TYPELESS", "DXGI_FORMAT_BC7_TYPELESS">>,
    <<"TEX_FORMAT_BC7_UNORM", "DXGI_FORMAT_BC7_UNORM">>,
    <<"TEX_FORMAT_BC7_UNORM_SRGB", "DXGI_FORMAT_BC7_UNORM_SRGB">>
>>

NumStores == Len(FormatMapInit)

\* the k-th assignment as <<index, value>>
FormatMapStores == [k \in 1..NumStores |->
    <<TexFormatValue[FormatMapInit[k][1]], DXGIFormatValue[FormatMapInit[k][2]]>>]

(***************************************************************************)
(* Bounds of the model.                                                    *)
(***************************************************************************)
\* how far outside the valid enumeration range the inputs of a call reach
MaxOutOfRange == 1
\* threads of SpecConc
NumThreads == 2
\* SpecConc: the unsynchronised store to bFormatMapInitialized may become
\* visible ahead of at most this many of the table stores that precede it
MaxReorderWindow == 2

(***************************************************************************)
(* CorrectDXGIFormat: three sequential passes over the possibly already    *)
(* rewritten value.                                                        *)
(***************************************************************************)
\* (BindFlags & BIND_DEPTH_STENCIL) && (BindFlags != BIND_DEPTH_STENCIL)
IsDepthStencilCombined(BindFlags) ==
    HasFlag(BindFlags, BIND_DEPTH_STENCIL) /\ BindFlags # BIND_DEPTH_STENCIL

\* mutant: the second pass tests the bit instead of comparing the whole value
IsDepthStencilOnly_BitTest(BindFlags) == HasFlag(BindFlags, BIND_DEPTH_STENCIL)

\* BindFlags == BIND_DEPTH_STENCIL
IsDepthStencilOnly(BindFlags) == BindFlags = BIND_DEPTH_STENCIL

\* mutant: the third pass forgets BIND_UNORDERED_ACCESS
IsShaderReadOnly_NoUAV(BindFlags) == BindFlags = BIND_SHADER_RESOURCE

\* mutant: the third pass tests the bits instead of comparing the whole value
IsShaderReadOnly_BitTest(BindFlags) ==
    HasFlag(BindFlags, BIND_SHADER_RESOURCE) \/ HasFlag(BindFlags, BIND_UNORDERED_ACCESS)

\* BindFlags == BIND_SHADER_RESOURCE || BindFlags == BIND_UNORDERED_ACCESS
IsShaderReadOnly(BindFlags) ==
    BindFlags = BIND_SHADER_RESOURCE \/ BindFlags = BIND_UNORDERED_ACCESS

\* the case labels of the first switch
DepthStencilCases == {
    DXGI_FORMAT_R32_TYPELESS, DXGI_FORMAT_R32_FLOAT, DXGI_FORMAT_D32_FLOAT,
    DXGI_FORMAT_R24G8_TYPELESS, DXGI_FORMAT_D24_UNORM_S8_UINT,
    DXGI_FORMAT_R24_UNORM_X8_TYPELESS, DXGI_FORMAT_X24_TYPELESS_G8_UINT,
    DXGI_FORMAT_R16_TYPELESS, DXGI_FORMAT_R16_UNORM, DXGI_FORMAT_D16_UNORM,
    DXGI_FORMAT_R32G8X24_TYPELESS, DXGI_FORMAT_D32_FLOAT_S8X24_UINT,
    DXGI_FORMAT_R32_FLOAT_X8X24_TYPELESS, DXGI_FORMAT_X32_TYPELESS_G8X24_UINT}

\* mutant: the default case of the first switch gives up on the format
ToTypeless_DefaultUnknown(DXGIFormat) ==
    CASE DXGIFormat \in {DXGI_FORMAT_R32_TYPELESS, DXGI_FORMAT_R32_FLOAT,
                         DXGI_FORMAT_D32_FLOAT}
           -> DXGI_FORMAT_R32_TYPELESS
      [] DXGIFormat \in {DXGI_FORMAT_R24G8_TYPELESS, DXGI_FORMAT_D24_UNORM_S8_UINT,
                         DXGI_FORMAT_R24_UNORM_X8_TYPELESS,
                         DXGI_FORMAT_X24_TYPELESS_G8_UINT}
           -> DXGI_FORMAT_R24G8_TYPELESS
      [] DXGIFormat \in {DXGI_FORMAT_R16_TYPELESS, DXGI_FORMAT_R16_UNORM,
                         DXGI_FORMAT_D16_UNORM}
           -> DXGI_FORMAT_R16_TYPELESS
      [] DXGIFormat \in {DXGI_FORMAT_R32G8X24_TYPELESS, DXGI_FORMAT_D32_FLOAT_S8X24_UINT,
                         DXGI_FORMAT_R32_FLOAT_X8X24_TYPELESS,
                         DXGI_FORMAT_X32_TYPELESS_G8X24_UINT}
           -> DXGI_FORMAT_R32G8X24_TYPELESS
      [] OTHER -> DXGI_FORMAT_UNKNOWN

\* first switch: to the typeless base
ToTypeless(DXGIFormat) ==
    CASE DXGIFormat \in {DXGI_FORMAT_R32_TYPELESS, DXGI_FORMAT_R32_FLOAT,
                         DXGI_FORMAT_D32_FLOAT}
           -> DXGI_FORMAT_R32_TYPELESS
      [] DXGIFormat \in {DXGI_FORMAT_R24G8_TYPELESS, DXGI_FORMAT_D24_UNORM_S8_UINT,
                         DXGI_FORMAT_R24_UNORM_X8_TYPELESS,
                         DXGI_FORMAT_X24_TYPELESS_G8_UINT}
           -> DXGI_FORMAT_R24G8_TYPELESS
      [] DXGIFormat \in {DXGI_FORMAT_R16_TYPELESS, DXGI_FORMAT_R16_UNORM,
                         DXGI_FORMAT_D16_UNORM}
           -> DXGI_FORMAT_R16_TYPELESS
      [] DXGIFormat \in {DXGI_FORMAT_R32G8X24_TYPELESS, DXGI_FORMAT_D32_FLOAT_S8X24_UINT,
                         DXGI_FORMAT_R32_FLOAT_X8X24_TYPELESS,
                         DXGI_FORMAT_X32_TYPELESS_G8X24_UINT}
           -> DXGI_FORMAT_R32G8X24_TYPELESS
      [] OTHER -> DXGIFormat

\* mutant: a copy-paste slip in the second switch, the last group of case
\* labels assigning DXGI_FORMAT_R32_TYPELESS
ToDepth_CopyPaste(DXGIFormat) ==
    CASE DXGIFormat \in {DXGI_FORMAT_R32_TYPELESS, DXGI_FORMAT_R32_FLOAT}
           -> DXGI_FORMAT_D32_FLOAT
      [] DXGIFormat \in {DXGI_FORMAT_R24G8_TYPELESS, DXGI_FORMAT_R24_UNORM_X8_TYPELESS,
                         DXGI_FORMAT_X24_TYPELESS_G8_UINT}
           -> DXGI_FORMAT_D24_UNORM_S8_UINT
      [] DXGIFormat \in {DXGI_FORMAT_R16_TYPELESS, DXGI_FORMAT_R16_UNORM}
           -> DXGI_FORMAT_D16_UNORM
      [] DXGIFormat \in {DXGI_FORMAT_R32G8X24_TYPELESS,
                         DXGI_FORMAT_R32_FLOAT_X8X24_TYPELESS,
                         DXGI_FORMAT_X32_TYPELESS_G8X24_UINT}
           -> DXGI_FORMAT_R32_TYPELESS
      [] OTHER -> DXGIFormat

\* second switch: to the depth-stencil format
ToDepth(DXGIFormat) ==
    CASE DXGIFormat \in {DXGI_FORMAT_R32_TYPELESS, DXGI_FORMAT_R32_FLOAT}
           -> DXGI_FORMAT_D32_FLOAT
      [] DXGIFormat \in {DXGI_FORMAT_R24G8_TYPELESS, DXGI_FORMAT_R24_UNORM_X8_TYPELESS,
                         DXGI_FORMAT_X24_TYPELESS_G8_UINT}
           -> DXGI_FORMAT_D24_UNORM_S8_UINT
      [] DXGIFormat \in {DXGI_FORMAT_R16_TYPELESS, DXGI_FORMAT_R16_UNORM}
           -> DXGI_FORMAT_D16_UNORM
      [] DXGIFormat \in {DXGI_FORMAT_R32G8X24_TYPELESS,
                         DXGI_FORMAT_R32_FLOAT_X8X24_TYPELESS,
                         DXGI_FORMAT_X32_TYPELESS_G8X24_UINT}
           -> DXGI_FORMAT_D32_FLOAT_S8X24_UINT
      [] OTHER -> DXGIFormat

\* third switch: to the shader-readable format
ToShaderReadable(DXGIFormat) ==
    CASE DXGIFormat \in {DXGI_FORMAT_R32_TYPELESS, DXGI_FORMAT_D32_FLOAT}
           -> DXGI_FORMAT_R32_FLOAT
      [] DXGIFormat \in {DXGI_FORMAT_R24G8_TYPELESS, DXGI_FORMAT_D24_UNORM_S8_UINT}
           -> DXGI_FORMAT_R24_UNORM_X8_TYPELESS
      [] DXGIFormat \in {DXGI_FORMAT_R16_TYPELESS, DXGI_FORMAT_D16_UNORM}
           -> DXGI_FORMAT_R16_UNORM
      [] DXGIFormat \in {DXGI_FORMAT_R32G8X24_TYPELESS, DXGI_FORMAT_D32_FLOAT_S8X24_UINT}
           -> DXGI_FORMAT_R32_FLOAT_X8X24_TYPELESS
      [] OTHER -> DXGIFormat

TypelessPass(DXGIFormat, BindFlags) ==
    IF IsDepthStencilCombined(BindFlags) THEN ToTypeless(DXGIFormat) ELSE DXGIFormat

DepthPass(DXGIFormat, BindFlags) ==
    IF IsDepthStencilOnly(BindFlags) THEN ToDepth(DXGIFormat) ELSE DXGIFormat

ShaderReadablePass(DXGIFormat, BindFlags) ==
    IF IsShaderReadOnly(BindFlags) THEN ToShaderReadable(DXGIFormat) ELSE DXGIFormat

\* the value CorrectDXGIFormat returns
CorrectDXGIFormat(DXGIFormat, BindFlags) ==
    ShaderReadablePass(DepthPass(TypelessPass(DXGIFormat, BindFlags), BindFlags), BindFlags)

\* the diagnostics CorrectDXGIFormat reports: UNEXPECTED in the default case
\* of the first switch; execution goes on after it
CorrectDXGIFormatDiag(DXGIFormat, BindFlags) ==
    IF IsDepthStencilCombined(BindFlags) /\ DXGIFormat \notin DepthStencilCases
    THEN {"CorrectDXGIFormat: Unsupported depth-stencil format"}
    ELSE {}

(***************************************************************************)
(* The forward table (FmtToDXGIFmtMap) and its construction body.          *)
(***************************************************************************)
TexFormats == 0..(TEX_FORMAT_NUM_FORMATS - 1)
DXGIFormats == 0..DXGI_FORMAT_B4G4R4A4_UNORM

\* static DXGI_FORMAT FmtToDXGIFmtMap[TEX_FORMAT_NUM_FORMATS] = {DXGI_FORMAT_UNKNOWN}
EmptyFormatMap == [f \in TexFormats |-> DXGI_FORMAT_UNKNOWN]

\* mutant: a copy-paste slip in the table, TEX_FORMAT_BGRA8_UNORM given the
\* native value of TEX_FORMAT_RGBA8_UNORM
StoreFormatMap_CopyPaste(Map, k) ==
    [Map EXCEPT ![FormatMapStores[k][1]] =
        IF FormatMapStores[k][2] = DXGI_FORMAT_B8G8R8A8_UNORM
        THEN DXGI_FORMAT_R8G8B8A8_UNORM
        ELSE FormatMapStores[k][2]]

\* the k-th assignment of the construction body
StoreFormatMap(Map, k) ==
    [Map EXCEPT ![FormatMapStores[k][1]] = FormatMapStores[k][2]]

RECURSIVE StoreFormatMapRange(_, _, _)
\* the assignments lo..hi of the construction body, in source order
StoreFormatMapRange(Map, lo, hi) ==
    IF hi < lo THEN Map
    ELSE IF lo = hi THEN StoreFormatMap(Map, lo)
    ELSE LET mid == (lo + hi) \div 2
         IN  \* the first half is evaluated to a value, then the second half runs on it
             CHOOSE Result \in {StoreFormatMapRange(First, mid + 1, hi) :
                                First \in {StoreFormatMapRange(Map, lo, mid)}} : TRUE

\* the whole construction body
BuildFormatMap(Map) == StoreFormatMapRange(Map, 1, NumStores)

\* mutant: the check without its exemption of the formats above
\* TEX_FORMAT_BC7_UNORM_SRGB
SupportedFormatVerified_NoExemption(TexFormat, DXGIFormat) ==
    \/ TexFormat = TEX_FORMAT_UNKNOWN
    \/ DXGIFormat # DXGI_FORMAT_UNKNOWN

\* VERIFY(TexFormat == TEX_FORMAT_UNKNOWN || TexFormat > TEX_FORMAT_BC7_UNORM_SRGB
\*        || DXGIFormat != DXGI_FORMAT_UNKNOWN, "Unsupported texture format")
SupportedFormatVerified(TexFormat, DXGIFormat) ==
    \/ TexFormat = TEX_FORMAT_UNKNOWN
    \/ TexFormat > TEX_FORMAT_BC7_UNORM_SRGB
    \/ DXGIFormat # DXGI_FORMAT_UNKNOWN

\* TexFormat >= TEX_FORMAT_UNKNOWN && TexFormat < TEX_FORMAT_NUM_FORMATS
TexFormatInRange(TexFormat) ==
    TexFormat >= TEX_FORMAT_UNKNOWN /\ TexFormat < TEX_FORMAT_NUM_FORMATS

\* mutant: the bind flags are ignored
ApplyBindFlags_Ignored(DXGIFormat, BindFlags) == DXGIFormat

\* if (BindFlags != 0) DXGIFormat = CorrectDXGIFormat(DXGIFormat, BindFlags);
\* return DXGIFormat
ApplyBindFlags(DXGIFormat, BindFlags) ==
    IF BindFlags # 0 THEN CorrectDXGIFormat(DXGIFormat, BindFlags) ELSE DXGIFormat

\* what TexFormatToDXGI_Format does after the construction block, on the table
\* Map: the value returned (ret), the diagnostics reported (diag), the table
\* slots read (read).  VERIFY and UNEXPECTED report and execution goes on.
TexFormatLookup(Map, TexFormat, BindFlags) ==
    IF TexFormatInRange(TexFormat)
    THEN LET DXGIFormat == Map[TexFormat]
         IN  [ret  |-> ApplyBindFlags(DXGIFormat, BindFlags),
              diag |-> (IF SupportedFormatVerified(TexFormat, DXGIFormat)
                        THEN {}
                        ELSE {"TexFormatToDXGI_Format: Unsupported texture format"})
                       \cup
                       (IF BindFlags # 0
                        THEN CorrectDXGIFormatDiag(DXGIFormat, BindFlags)
                        ELSE {}),
              read |-> {<<"FmtToDXGIFmtMap", TexFormat>>}]
    ELSE [ret  |-> DXGI_FORMAT_UNKNOWN,
          diag |-> {"TexFormatToDXGI_Format: Texture format is out of allowed range"},
          read |-> {}]

(***************************************************************************)
(* The inverse table (DXGIFmtToFmtMap) and DXGIFmtToFmtMapInitializer.     *)
(***************************************************************************)
\* static TEXTURE_FORMAT DXGIFmtToFmtMap[DXGI_FORMAT_B4G4R4A4_UNORM + 1]
EmptyInverseMap == [d \in DXGIFormats |-> TEX_FORMAT_UNKNOWN]

\* mutant: a slot already written is kept (first writer wins)
InitializerStep_FirstWins(Inv, Map, fmt) ==
    LET DXGIFmt == TexFormatLookup(Map, fmt, 0).ret
    IN  IF DXGIFmt \in DOMAIN Inv /\ Inv[DXGIFmt] = TEX_FORMAT_UNKNOWN
        THEN [Inv EXCEPT ![DXGIFmt] = fmt]
        ELSE Inv

\* one iteration of the constructor's loop, the forward table being Map
InitializerStep(Inv, Map, fmt) ==
    LET DXGIFmt == TexFormatLookup(Map, fmt, 0).ret
    IN  IF DXGIFmt \in DOMAIN Inv THEN [Inv EXCEPT ![DXGIFmt] = fmt] ELSE Inv

\* the diagnostics of one iteration
InitializerStepDiag(Map, fmt) ==
    LET r == TexFormatLookup(Map, fmt, 0)
    IN  r.diag \cup
        (IF r.ret <= DXGI_FORMAT_B4G4R4A4_UNORM
         THEN {}
         ELSE {"DXGIFmtToFmtMapInitializer: DXGIFmt <= DXGI_FORMAT_B4G4R4A4_UNORM"})

RECURSIVE InitializerLoopRange(_, _, _, _)
\* the iterations fmt = lo..hi of the constructor's loop, in ascending order
InitializerLoopRange(Inv, Map, lo, hi) ==
    IF hi < lo THEN Inv
    ELSE IF lo = hi THEN InitializerStep(Inv, Map, lo)
    ELSE LET mid == (lo + hi) \div 2
         IN  \* the first half is evaluated to a value, then the second half runs on it
             CHOOSE Result \in {InitializerLoopRange(First, Map, mid + 1, hi) :
                                First \in {InitializerLoopRange(Inv, Map, lo, mid)}} : TRUE

\* mutant: the loop stops before TEX_FORMAT_BC7_UNORM_SRGB
InitializerLoop_StopsEarly(Inv, Map) ==
    InitializerLoopRange(Inv, Map, TEX_FORMAT_UNKNOWN, TEX_FORMAT_BC7_UNORM_SRGB - 1)

\* for (fmt = TEX_FORMAT_UNKNOWN; fmt < TEX_FORMAT_NUM_FORMATS; fmt = fmt + 1)
InitializerLoop(Inv, Map) ==
    InitializerLoopRange(Inv, Map, TEX_FORMAT_UNKNOWN, TEX_FORMAT_NUM_FORMATS - 1)

\* the diagnostics of the whole loop
InitializerLoopDiag(Map) ==
    UNION {InitializerStepDiag(Map, fmt) : fmt \in TexFormats}

\* mutant: the range check uses the size of the inverse table
DXGIFormatInRange_TableSize(DXGIFormat) ==
    DXGIFormat >= DXGI_FORMAT_UNKNOWN /\ DXGIFormat <= DXGI_FORMAT_B4G4R4A4_UNORM

\* DXGIFormat >= DXGI_FORMAT_UNKNOWN && DXGIFormat <= DXGI_FORMAT_BC7_UNORM_SRGB
DXGIFormatInRange(DXGIFormat) ==
    DXGIFormat >= DXGI_FORMAT_UNKNOWN /\ DXGIFormat <= DXGI_FORMAT_BC7_UNORM_SRGB

\* what DXGI_FormatToTexFormat does after the static initialisation, on the
\* tables Inv and Map
DXGIFormatLookup(Inv, Map, DXGIFormat) ==
    IF DXGIFormatInRange(DXGIFormat)
    THEN LET Format == Inv[DXGIFormat]
             back   == TexFormatLookup(Map, Format, 0)
         IN  [ret  |-> Format,
              diag |-> (IF DXGIFormat = DXGI_FORMAT_UNKNOWN \/ Format # TEX_FORMAT_UNKNOWN
                        THEN {}
                        ELSE {"DXGI_FormatToTexFormat: Unsupported texture format"})
                       \cup back.diag \cup
                       (IF DXGIFormat = back.ret
                        THEN {}
                        ELSE {"DXGI_FormatToTexFormat: DXGIFormat == TexFormatToDXGI_Format(Format)"}),
              read |-> {<<"DXGIFmtToFmtMap", DXGIFormat>>} \cup back.read]
    ELSE [ret  |-> TEX_FORMAT_UNKNOWN,
          diag |-> {"DXGI_FormatToTexFormat: DXGI texture format is out of allowed range"},
          read |-> {}]

(***************************************************************************)
(* The colour-space switches.  Both functions are stateless.  A colour     *)
(* space is the position of its enumerator in the lists below; the         *)
(* switches depend on the enumerator only, never on its number.            *)
(***************************************************************************)
\* the enumerators the switch of ColorSpaceToDXGIColorSpace names
COLOR_SPACE == <<
    "COLOR_SPACE_UNKNOWN",
    "COLOR_SPACE_SRGB_NONLINEAR",
    "COLOR_SPACE_EXTENDED_SRGB_LINEAR",
    "COLOR_SPACE_EXTENDED_SRGB_NONLINEAR",
    "COLOR_SPACE_DISPLAY_P3_NONLINEAR",
    "COLOR_SPACE_DISPLAY_P3_LINEAR",
    "COLOR_SPACE_DCI_P3_NONLINEAR",
    "COLOR_SPACE_BT709_LINEAR",
    "COLOR_SPACE_BT709_NONLINEAR",
    "COLOR_SPACE_BT2020_LINEAR",
    "COLOR_SPACE_HDR10_ST2084",
    "COLOR_SPACE_HDR10_HLG",
    "COLOR_SPACE_DOLBY_VISION",
    "COLOR_SPACE_ADOBE_RGB_NONLINEAR",
    "COLOR_SPACE_ADOBE_RGB_LINEAR",
    "COLOR_SPACE_PASS_THROUGH",
    "COLOR_SPACE_SCRGB_LINEAR">>

\* the enumerators the switch of DXGIColorSpaceToColorSpace names
DXGI_COLOR_SPACE_TYPE == <<
    "DXGI_COLOR_SPACE_RGB_FULL_G22_NONE_P709",
    "DXGI_COLOR_SPACE_RGB_FULL_G10_NONE_P709",
    "DXGI_COLOR_SPACE_RGB_STUDIO_G22_NONE_P709",
    "DXGI_COLOR_SPACE_RGB_STUDIO_G22_NONE_P2020",
    "DXGI_COLOR_SPACE_RESERVED",
    "DXGI_COLOR_SPACE_YCBCR_FULL_G22_NONE_P709_X601",
    "DXGI_COLOR_SPACE_YCBCR_STUDIO_G22_LEFT_P601",
    "DXGI_COLOR_SPACE_YCBCR_FULL_G22_LEFT_P601",
    "DXGI_COLOR_SPACE_YCBCR_STUDIO_G22_LEFT_P709",
    "DXGI_COLOR_SPACE_YCBCR_FULL_G22_LEFT_P709",
    "DXGI_COLOR_SPACE_YCBCR_STUDIO_G22_LEFT_P2020",
    "DXGI_COLOR_SPACE_YCBCR_FULL_G22_LEFT_P2020",
    "DXGI_COLOR_SPACE_RGB_FULL_G2084_NONE_P2020",
    "DXGI_COLOR_SPACE_YCBCR_STUDIO_G2084_LEFT_P2020",
    "DXGI_COLOR_SPACE_RGB_STUDIO_G2084_NONE_P2020",
    "DXGI_COLOR_SPACE_YCBCR_STUDIO_G22_TOPLEFT_P2020",
    "DXGI_COLOR_SPACE_YCBCR_STUDIO_G2084_TOPLEFT_P2020",
    "DXGI_COLOR_SPACE_RGB_FULL_G22_NONE_P2020",
    "DXGI_COLOR_SPACE_YCBCR_STUDIO_GHLG_TOPLEFT_P2020",
    "DXGI_COLOR_SPACE_YCBCR_FULL_GHLG_TOPLEFT_P2020",
    "DXGI_COLOR_SPACE_RGB_STUDIO_G24_NONE_P709",
    "DXGI_COLOR_SPACE_RGB_STUDIO_G24_NONE_P2020",
    "DXGI_COLOR_SPACE_YCBCR_STUDIO_G24_LEFT_P709",
    "DXGI_COLOR_SPACE_YCBCR_STUDIO_G24_LEFT_P2020",
    "DXGI_COLOR_SPACE_YCBCR_STUDIO_G24_TOPLEFT_P2020",
    "DXGI_COLOR_SPACE_CUSTOM">>

ColorSpaceValue ==
    [n \in {COLOR_SPACE[i] : i \in DOMAIN COLOR_SPACE} |->
        (CHOOSE i \in DOMAIN COLOR_SPACE : COLOR_SPACE[i] = n) - 1]

DXGIColorSpaceValue ==
    [n \in {DXGI_COLOR_SPACE_TYPE[i] : i \in DOMAIN DXGI_COLOR_SPACE_TYPE} |->
        (CHOOSE i \in DOMAIN DXGI_COLOR_SPACE_TYPE : DXGI_COLOR_SPACE_TYPE[i] = n) - 1]

COLOR_SPACE_SRGB_NONLINEAR == ColorSpaceValue["COLOR_SPACE_SRGB_NONLINEAR"]
COLOR_SPACE_HDR10_ST2084 == ColorSpaceValue["COLOR_SPACE_HDR10_ST2084"]
DXGI_COLOR_SPACE_RGB_FULL_G22_NONE_P709 ==
    DXGIColorSpaceValue["DXGI_COLOR_SPACE_RGB_FULL_G22_NONE_P709"]
DXGI_COLOR_SPACE_RGB_FULL_G2084_NONE_P2020 ==
    DXGIColorSpaceValue["DXGI_COLOR_SPACE_RGB_FULL_G2084_NONE_P2020"]

\* the case labels of ColorSpaceToDXGIColorSpace and what each returns, in the
\* order of the source
ColorSpaceCases == <<
    <<"COLOR_SPACE_SRGB_NONLINEAR", "DXGI_COLOR_SPACE_RGB_FULL_G22_NONE_P709">>,
    <<"COLOR_SPACE_EXTENDED_SRGB_LINEAR", "DXGI_COLOR_SPACE_RGB_FULL_G10_NONE_P709">>,
    <<"COLOR_SPACE_EXTENDED_SRGB_NONLINEAR", "DXGI_COLOR_SPACE_RGB_FULL_G22_NONE_P709">>,
    <<"COLOR_SPACE_DISPLAY_P3_NONLINEAR", "DXGI_COLOR_SPACE_RGB_FULL_G22_NONE_P709">>,
    <<"COLOR_SPACE_DISPLAY_P3_LINEAR", "DXGI_COLOR_SPACE_RGB_FULL_G10_NONE_P709">>,
    <<"COLOR_SPACE_DCI_P3_NONLINEAR", "DXGI_COLOR_SPACE_RGB_FULL_G22_NONE_P709">>,
    <<"COLOR_SPACE_BT709_LINEAR", "DXGI_COLOR_SPACE_RGB_FULL_G10_NONE_P709">>,
    <<"COLOR_SPACE_BT709_NONLINEAR", "DXGI_COLOR_SPACE_RGB_FULL_G22_NONE_P709">>,
    <<"COLOR_SPACE_BT2020_LINEAR", "DXGI_COLOR_SPACE_RGB_FULL_G2084_NONE_P2020">>,
    <<"COLOR_SPACE_HDR10_ST2084", "DXGI_COLOR_SPACE_RGB_FULL_G2084_NONE_P2020">>,
    <<"COLOR_SPACE_HDR10_HLG", "DXGI_COLOR_SPACE_RGB_FULL_G22_NONE_P2020">>,
    <<"COLOR_SPACE_DOLBY_VISION", "DXGI_COLOR_SPACE_RGB_FULL_G2084_NONE_P2020">>,
    <<"COLOR_SPACE_ADOBE_RGB_NONLINEAR", "DXGI_COLOR_SPACE_RGB_FULL_G22_NONE_P709">>,
    <<"COLOR_SPACE_ADOBE_RGB_LINEAR", "DXGI_COLOR_SPACE_RGB_FULL_G10_NONE_P709">>,
    <<"COLOR_SPACE_PASS_THROUGH", "DXGI_COLOR_SPACE_RGB_FULL_G22_NONE_P709">>,
    <<"COLOR_SPACE_SCRGB_LINEAR", "DXGI_COLOR_SPACE_RGB_FULL_G10_NONE_P709">>,
    <<"COLOR_SPACE_UNKNOWN", "DXGI_COLOR_SPACE_RGB_FULL_G22_NONE_P709">>>>

\* the case labels of DXGIColorSpaceToColorSpace and what each returns, in the
\* order of the source
DXGIColorSpaceCases == <<
    <<"DXGI_COLOR_SPACE_RGB_FULL_G22_NONE_P709", "COLOR_SPACE_SRGB_NONLINEAR">>,
    <<"DXGI_COLOR_SPACE_RGB_FULL_G10_NONE_P709", "COLOR_SPACE_SCRGB_LINEAR">>,
    <<"DXGI_COLOR_SPACE_RGB_FULL_G2084_NONE_P2020", "COLOR_SPACE_HDR10_ST2084">>,
    <<"DXGI_COLOR_SPACE_RGB_FULL_G22_NONE_P2020", "COLOR_SPACE_HDR10_HLG">>,
    <<"DXGI_COLOR_SPACE_RGB_STUDIO_G22_NONE_P709", "COLOR_SPACE_SRGB_NONLINEAR">>,
    <<"DXGI_COLOR_SPACE_RGB_STUDIO_G22_NONE_P2020", "COLOR_SPACE_HDR10_HLG">>,
    <<"DXGI_COLOR_SPACE_RGB_STUDIO_G2084_NONE_P2020", "COLOR_SPACE_HDR10_ST2084">>,
    <<"DXGI_COLOR_SPACE_RGB_STUDIO_G24_NONE_P709", "COLOR_SPACE_BT709_NONLINEAR">>,
    <<"DXGI_COLOR_SPACE_RGB_STUDIO_G24_NONE_P2020", "COLOR_SPACE_HDR10_HLG">>,
    <<"DXGI_COLOR_SPACE_YCBCR_FULL_G22_NONE_P709_X601", "COLOR_SPACE_SRGB_NONLINEAR">>,
    <<"DXGI_COLOR_SPACE_YCBCR_STUDIO_G22_LEFT_P601", "COLOR_SPACE_SRGB_NONLINEAR">>,
    <<"DXGI_COLOR_SPACE_YCBCR_FULL_G22_LEFT_P601", "COLOR_SPACE_SRGB_NONLINEAR">>,
    <<"DXGI_COLOR_SPACE_YCBCR_STUDIO_G22_LEFT_P709", "COLOR_SPACE_SRGB_NONLINEAR">>,
    <<"DXGI_COLOR_SPACE_YCBCR_FULL_G22_LEFT_P709", "COLOR_SPACE_SRGB_NONLINEAR">>,
    <<"DXGI_COLOR_SPACE_YCBCR_STUDIO_G24_LEFT_P709", "COLOR_SPACE_SRGB_NONLINEAR">>,
    <<"DXGI_COLOR_SPACE_YCBCR_STUDIO_G22_LEFT_P2020", "COLOR_SPACE_HDR10_HLG">>,
    <<"DXGI_COLOR_SPACE_YCBCR_FULL_G22_LEFT_P2020", "COLOR_SPACE_HDR10_HLG">>,
    <<"DXGI_COLOR_SPACE_YCBCR_STUDIO_G22_TOPLEFT_P2020", "COLOR_SPACE_HDR10_HLG">>,
    <<"DXGI_COLOR_SPACE_YCBCR_STUDIO_G24_LEFT_P2020", "COLOR_SPACE_HDR10_HLG">>,
    <<"DXGI_COLOR_SPACE_YCBCR_STUDIO_G24_TOPLEFT_P2020", "COLOR_SPACE_HDR10_HLG">>,
    <<"DXGI_COLOR_SPACE_YCBCR_STUDIO_G2084_LEFT_P2020", "COLOR_SPACE_HDR10_ST2084">>,
    <<"DXGI_COLOR_SPACE_YCBCR_STUDIO_G2084_TOPLEFT_P2020", "COLOR_SPACE_HDR10_ST2084">>,
    <<"DXGI_COLOR_SPACE_YCBCR_STUDIO_GHLG_TOPLEFT_P2020", "COLOR_SPACE_HDR10_HLG">>,
    <<"DXGI_COLOR_SPACE_YCBCR_FULL_GHLG_TOPLEFT_P2020", "COLOR_SPACE_HDR10_HLG">>,
    <<"DXGI_COLOR_SPACE_RESERVED", "COLOR_SPACE_SRGB_NONLINEAR">>,
    <<"DXGI_COLOR_SPACE_CUSTOM", "COLOR_SPACE_SRGB_NONLINEAR">>>>

\* switch (ColorSpace): the case whose label is ColorSpace, else the default
ColorSpaceSwitch(Cases, ColorSpace) ==
    IF \E i \in DOMAIN Cases : ColorSpaceValue[Cases[i][1]] = ColorSpace
    THEN LET i == CHOOSE j \in DOMAIN Cases : ColorSpaceValue[Cases[j][1]] = ColorSpace
         IN  DXGIColorSpaceValue[Cases[i][2]]
    ELSE DXGI_COLOR_SPACE_RGB_FULL_G22_NONE_P709

\* mutant: COLOR_SPACE_HDR10_ST2084 returns what the case below it returns
ColorSpaceToDXGIColorSpace_HLGForPQ(ColorSpace) ==
    ColorSpaceSwitch([ColorSpaceCases EXCEPT
                         ![10] = <<"COLOR_SPACE_HDR10_ST2084",
                                   "DXGI_COLOR_SPACE_RGB_FULL_G22_NONE_P2020">>],
                     ColorSpace)

ColorSpaceToDXGIColorSpace(ColorSpace) == ColorSpaceSwitch(ColorSpaceCases, ColorSpace)

\* switch (DXGIColorSpace): the case whose label is DXGIColorSpace, else the default
DXGIColorSpaceToColorSpace(DXGIColorSpace) ==
    IF \E i \in DOMAIN DXGIColorSpaceCases :
           DXGIColorSpaceValue[DXGIColorSpaceCases[i][1]] = DXGIColorSpace
    THEN LET i == CHOOSE j \in DOMAIN DXGIColorSpaceCases :
                      DXGIColorSpaceValue[DXGIColorSpaceCases[j][1]] = DXGIColorSpace
         IN  ColorSpaceValue[DXGIColorSpaceCases[i][2]]
    ELSE COLOR_SPACE_SRGB_NONLINEAR

(***************************************************************************)
(* State.                                                                  *)
(***************************************************************************)
VARIABLES
    bFormatMapInitialized,  \* static Bool of TexFormatToDXGI_Format
    FmtToDXGIFmtMap,        \* static forward table
    DXGIFmtToFmtMap,        \* static inverse table of DXGI_FormatToTexFormat
    Initializer,            \* guard of the static Initializer: "uninit", "running", "done"
    lastCall,               \* the last call that returned: function, arguments, outcome
    threads,                \* SpecConc: per thread, its place in the code and its locals
    bodyRuns,               \* times the forward table's construction body was entered
    storeAfterFlag          \* a table store was executed with bFormatMapInitialized set

vars == <<bFormatMapInitialized, FmtToDXGIFmtMap, DXGIFmtToFmtMap, Initializer,
          lastCall, threads, bodyRuns, storeAfterFlag>>

Threads == 1..NumThreads

NoCall == [fn |-> "none", arg |-> 0, flags |-> 0, ret |-> 0, diag |-> {}, read |-> {}]

Returned(fn, arg, flags, r) ==
    [fn |-> fn, arg |-> arg, flags |-> flags, ret |-> r.ret, diag |-> r.diag, read |-> r.read]

IdleThread == [pc |-> "idle", k |-> 0, fmt |-> 0, inInit |-> FALSE, early |-> FALSE]

Init ==
    /\ bFormatMapInitialized = FALSE
    /\ FmtToDXGIFmtMap = EmptyFormatMap
    /\ DXGIFmtToFmtMap = EmptyInverseMap
    /\ Initializer = "uninit"
    /\ lastCall = NoCall
    /\ threads = [t \in Threads |-> IdleThread]
    /\ bodyRuns = 0
    /\ storeAfterFlag = FALSE

(***************************************************************************)
(* Inputs.                                                                 *)
(***************************************************************************)
TexFormatInputs == (0 - MaxOutOfRange)..(TEX_FORMAT_NUM_FORMATS - 1 + MaxOutOfRange)
DXGIFormatInputs == (0 - MaxOutOfRange)..(DXGI_FORMAT_B4G4R4A4_UNORM + MaxOutOfRange)

\* every enumerator, and values that are no enumerator
ColorSpaceInputs == (0 - MaxOutOfRange)..(Len(COLOR_SPACE) - 1 + MaxOutOfRange)
DXGIColorSpaceInputs == (0 - MaxOutOfRange)..(Len(DXGI_COLOR_SPACE_TYPE) - 1 + MaxOutOfRange)

RECURSIVE SumOf(_)
SumOf(S) == IF S = {} THEN 0 ELSE LET x == CHOOSE y \in S : TRUE IN x + SumOf(S \ {x})

\* every combination of the four bind flags, 0 included
BindFlagInputs ==
    {SumOf(S) : S \in SUBSET {BIND_SHADER_RESOURCE, BIND_RENDER_TARGET,
                              BIND_DEPTH_STENCIL, BIND_UNORDERED_ACCESS}}

(***************************************************************************)
(* Single-threaded calls (Spec): each action is one whole call, made by a  *)
(* caller that has taken the value of its previous call.                   *)
(***************************************************************************)
\* the forward table after the construction block of a call
FormatMapAfterInit == 
    IF bFormatMapInitialized THEN FmtToDXGIFmtMap ELSE BuildFormatMap(FmtToDXGIFmtMap)

Call_TexFormatToDXGI_Format(TexFormat, BindFlags) ==
    /\ lastCall = NoCall
    /\ FmtToDXGIFmtMap' = FormatMapAfterInit
    /\ bFormatMapInitialized' = TRUE
    /\ bodyRuns' = IF bFormatMapInitialized THEN bodyRuns ELSE bodyRuns + 1
    /\ lastCall' = Returned("TexFormatToDXGI_Format", TexFormat, BindFlags,
                            TexFormatLookup(FmtToDXGIFmtMap', TexFormat, BindFlags))
    /\ UNCHANGED <<DXGIFmtToFmtMap, Initializer, threads, storeAfterFlag>>

Call_DXGI_FormatToTexFormat(DXGIFormat) ==
    /\ lastCall = NoCall
    /\ IF Initializer = "uninit"
       THEN /\ FmtToDXGIFmtMap' = FormatMapAfterInit
            /\ bFormatMapInitialized' = TRUE
            /\ bodyRuns' = IF bFormatMapInitialized THEN bodyRuns ELSE bodyRuns + 1
            /\ DXGIFmtToFmtMap' =
                   InitializerLoop(DXGIFmtToFmtMap, FmtToDXGIFmtMap')
            /\ Initializer' = "done"
       ELSE UNCHANGED <<FmtToDXGIFmtMap, bFormatMapInitialized, bodyRuns,
                        DXGIFmtToFmtMap, Initializer>>
    /\ lastCall' =
           LET r == DXGIFormatLookup(DXGIFmtToFmtMap', FmtToDXGIFmtMap', DXGIFormat)
               \* what the constructor reported, when this call ran it
               built == IF Initializer = "uninit"
                        THEN InitializerLoopDiag(FmtToDXGIFmtMap')
                        ELSE {}
           IN  Returned("DXGI_FormatToTexFormat", DXGIFormat, 0,
                        [r EXCEPT !.diag = built \cup @])
    /\ UNCHANGED <<threads, storeAfterFlag>>

\* called on a format of the caller's, or again on the format it has just
\* returned, with the same bind flags
Call_CorrectDXGIFormat(DXGIFormat, BindFlags) ==
    /\ \/ lastCall = NoCall
       \/ /\ lastCall.fn = "CorrectDXGIFormat"
          /\ DXGIFormat = lastCall.ret
          /\ BindFlags = lastCall.flags
    /\ lastCall' = Returned("CorrectDXGIFormat", DXGIFormat, BindFlags,
                            [ret  |-> CorrectDXGIFormat(DXGIFormat, BindFlags),
                             diag |-> CorrectDXGIFormatDiag(DXGIFormat, BindFlags),
                             read |-> {}])
    /\ UNCHANGED <<bFormatMapInitialized, FmtToDXGIFmtMap, DXGIFmtToFmtMap, Initializer,
                   threads, bodyRuns, storeAfterFlag>>

Call_ColorSpaceToDXGIColorSpace(ColorSpace) ==
    /\ lastCall = NoCall
    /\ lastCall' = Returned("ColorSpaceToDXGIColorSpace", ColorSpace, 0,
                            [ret  |-> ColorSpaceToDXGIColorSpace(ColorSpace),
                             diag |-> {},
                             read |-> {}])
    /\ UNCHANGED <<bFormatMapInitialized, FmtToDXGIFmtMap, DXGIFmtToFmtMap, Initializer,
                   threads, bodyRuns, storeAfterFlag>>

\* called on a value of the caller's, or on the value ColorSpaceToDXGIColorSpace
\* has just returned
Call_DXGIColorSpaceToColorSpace(DXGIColorSpace) ==
    /\ \/ lastCall = NoCall
       \/ /\ lastCall.fn = "ColorSpaceToDXGIColorSpace"
          /\ DXGIColorSpace = lastCall.ret
    /\ lastCall' = Returned("DXGIColorSpaceToColorSpace", DXGIColorSpace, 0,
                            [ret  |-> DXGIColorSpaceToColorSpace(DXGIColorSpace),
                             diag |-> {},
                             read |-> {}])
    /\ UNCHANGED <<bFormatMapInitialized, FmtToDXGIFmtMap, DXGIFmtToFmtMap, Initializer,
                   threads, bodyRuns, storeAfterFlag>>

\* the caller takes the returned value and goes on
CallerContinues ==
    /\ lastCall # NoCall
    /\ lastCall' = NoCall
    /\ UNCHANGED <<bFormatMapInitialized, FmtToDXGIFmtMap, DXGIFmtToFmtMap, Initializer,
                   threads, bodyRuns, storeAfterFlag>>

Next ==
    \/ \E TexFormat \in TexFormatInputs, BindFlags \in BindFlagInputs :
           Call_TexFormatToDXGI_Format(TexFormat, BindFlags)
    \/ \E DXGIFormat \in DXGIFormatInputs : Call_DXGI_FormatToTexFormat(DXGIFormat)
    \/ \E DXGIFormat \in DXGIFormats, BindFlags \in BindFlagInputs :
           Call_CorrectDXGIFormat(DXGIFormat, BindFlags)
    \/ \E ColorSpace \in ColorSpaceInputs : Call_ColorSpaceToDXGIColorSpace(ColorSpace)
    \/ \E DXGIColorSpace \in DXGIColorSpaceInputs :
           Call_DXGIColorSpaceToColorSpace(DXGIColorSpace)
    \/ CallerContinues

Spec == Init /\ [][Next]_vars

(***************************************************************************)
(* Concurrent first use (SpecConc).  Each thread runs the same code, one   *)
(* access to shared memory per step.  bFormatMapInitialized and            *)
(* FmtToDXGIFmtMap are plain statics, read and written with no             *)
(* synchronisation; the static Initializer of DXGI_FormatToTexFormat is a  *)
(* function-local static, constructed by one thread while the others wait. *)
(* A call's arguments are not used before the lookup, where they are       *)
(* drawn.                                                                  *)
(***************************************************************************)
ConcTexFormatInputs == {TEX_FORMAT_RGBA8_UNORM, TEX_FORMAT_BC7_UNORM_SRGB}
ConcBindFlagInputs == {0, BIND_DEPTH_STENCIL}
ConcDXGIFormatInputs == {DXGI_FORMAT_UNKNOWN, DXGI_FORMAT_BC7_UNORM_SRGB}

At(t, pc) == threads[t].pc = pc

\* a thread calls TexFormatToDXGI_Format
T_Call_TexFormatToDXGI_Format(t) ==
    /\ At(t, "idle")
    /\ threads' = [threads EXCEPT ![t].pc = "fwd_check", ![t].inInit = FALSE]
    /\ UNCHANGED <<bFormatMapInitialized, FmtToDXGIFmtMap, DXGIFmtToFmtMap, Initializer,
                   lastCall, bodyRuns, storeAfterFlag>>

\* if (!bFormatMapInitialized)
T_CheckInitialized(t) ==
    /\ At(t, "fwd_check")
    /\ IF bFormatMapInitialized
       THEN /\ threads' = [threads EXCEPT ![t].pc = "fwd_lookup"]
            /\ UNCHANGED bodyRuns
       ELSE /\ threads' = [threads EXCEPT ![t].pc = "fwd_body", ![t].k = 0,
                                          ![t].early = FALSE]
            /\ bodyRuns' = bodyRuns + 1
    /\ UNCHANGED <<bFormatMapInitialized, FmtToDXGIFmtMap, DXGIFmtToFmtMap, Initializer,
                   lastCall, storeAfterFlag>>

\* the next assignment of the construction body
T_StoreEntry(t) ==
    /\ At(t, "fwd_body")
    /\ threads[t].k < NumStores
    /\ FmtToDXGIFmtMap' = StoreFormatMap(FmtToDXGIFmtMap, threads[t].k + 1)
    /\ threads' = [threads EXCEPT ![t].k = @ + 1]
    /\ storeAfterFlag' = (storeAfterFlag \/ bFormatMapInitialized)
    /\ UNCHANGED <<bFormatMapInitialized, DXGIFmtToFmtMap, Initializer, lastCall, bodyRuns>>

\* bFormatMapInitialized = true, made visible before the last table stores: the
\* flag and the table are written and read with no synchronisation (a data
\* race), so nothing orders the store to the flag after the stores to the table
T_SetInitializedEarly(t) ==
    /\ At(t, "fwd_body")
    /\ threads[t].k < NumStores
    /\ NumStores - threads[t].k <= MaxReorderWindow
    /\ ~threads[t].early
    /\ bFormatMapInitialized' = TRUE
    /\ threads' = [threads EXCEPT ![t].early = TRUE]
    /\ UNCHANGED <<FmtToDXGIFmtMap, DXGIFmtToFmtMap, Initializer, lastCall, bodyRuns,
                   storeAfterFlag>>

\* bFormatMapInitialized = true, at the end of the construction body
T_SetInitialized(t) ==
    /\ At(t, "fwd_body")
    /\ threads[t].k = NumStores
    /\ bFormatMapInitialized' = TRUE
    /\ threads' = [threads EXCEPT ![t].pc = "fwd_lookup"]
    /\ UNCHANGED <<FmtToDXGIFmtMap, DXGIFmtToFmtMap, Initializer, lastCall, bodyRuns,
                   storeAfterFlag>>

\* the range check, the table read and the return of a caller's call
T_Lookup(t, TexFormat, BindFlags) ==
    /\ At(t, "fwd_lookup")
    /\ ~threads[t].inInit
    /\ lastCall' = Returned("TexFormatToDXGI_Format", TexFormat, BindFlags,
                            TexFormatLookup(FmtToDXGIFmtMap, TexFormat, BindFlags))
    /\ threads' = [threads EXCEPT ![t] = IdleThread]
    /\ UNCHANGED <<bFormatMapInitialized, FmtToDXGIFmtMap, DXGIFmtToFmtMap, Initializer,
                   bodyRuns, storeAfterFlag>>

\* a thread calls DXGI_FormatToTexFormat
T_Call_DXGI_FormatToTexFormat(t) ==
    /\ At(t, "idle")
    /\ threads' = [threads EXCEPT ![t].pc = "inv_guard"]
    /\ UNCHANGED <<bFormatMapInitialized, FmtToDXGIFmtMap, DXGIFmtToFmtMap, Initializer,
                   lastCall, bodyRuns, storeAfterFlag>>

\* static DXGIFmtToFmtMapInitializer Initializer(DXGIFmtToFmtMap): the first
\* thread to arrive runs the constructor, whose loop starts by calling
\* TexFormatToDXGI_Format(TEX_FORMAT_UNKNOWN)
T_EnterInitializer(t) ==
    /\ At(t, "inv_guard")
    /\ Initializer = "uninit"
    /\ Initializer' = "running"
    /\ threads' = [threads EXCEPT ![t].pc = "fwd_check", ![t].inInit = TRUE,
                                  ![t].fmt = TEX_FORMAT_UNKNOWN]
    /\ UNCHANGED <<bFormatMapInitialized, FmtToDXGIFmtMap, DXGIFmtToFmtMap, lastCall,
                   bodyRuns, storeAfterFlag>>

\* the static is constructed: go on to the lookup (a thread that arrives while
\* the constructor runs waits)
T_PassInitializer(t) ==
    /\ At(t, "inv_guard")
    /\ Initializer = "done"
    /\ threads' = [threads EXCEPT ![t].pc = "inv_lookup"]
    /\ UNCHANGED <<bFormatMapInitialized, FmtToDXGIFmtMap, DXGIFmtToFmtMap, Initializer,
                   lastCall, bodyRuns, storeAfterFlag>>

\* in the constructor: the table read of TexFormatToDXGI_Format(fmt), the store
\* DXGIFmtToFmtMap[DXGIFmt] = fmt, and the loop's increment and test
T_InitializerStep(t) ==
    /\ At(t, "fwd_lookup")
    /\ threads[t].inInit
    /\ DXGIFmtToFmtMap' = InitializerStep(DXGIFmtToFmtMap, FmtToDXGIFmtMap, threads[t].fmt)
    /\ IF threads[t].fmt + 1 < TEX_FORMAT_NUM_FORMATS
       THEN /\ threads' = [threads EXCEPT ![t].pc = "fwd_check", ![t].fmt = @ + 1]
            /\ UNCHANGED Initializer
       ELSE /\ threads' = [threads EXCEPT ![t] = [IdleThread EXCEPT !.pc = "inv_lookup"]]
            /\ Initializer' = "done"
    /\ UNCHANGED <<bFormatMapInitialized, FmtToDXGIFmtMap, lastCall, bodyRuns,
                   storeAfterFlag>>

\* the range check, the table read, the two checks and the return
T_InverseLookup(t, DXGIFormat) ==
    /\ At(t, "inv_lookup")
    /\ lastCall' = Returned("DXGI_FormatToTexFormat", DXGIFormat, 0,
                            DXGIFormatLookup(DXGIFmtToFmtMap, FmtToDXGIFmtMap, DXGIFormat))
    /\ threads' = [threads EXCEPT ![t] = IdleThread]
    /\ UNCHANGED <<bFormatMapInitialized, FmtToDXGIFmtMap, DXGIFmtToFmtMap, Initializer,
                   bodyRuns, storeAfterFlag>>

NextConc ==
    \E t \in Threads :
        \/ T_Call_TexFormatToDXGI_Format(t)
        \/ T_CheckInitialized(t)
        \/ T_StoreEntry(t)
        \/ T_SetInitializedEarly(t)
        \/ T_SetInitialized(t)
        \/ \E TexFormat \in ConcTexFormatInputs, BindFlags \in ConcBindFlagInputs :
               T_Lookup(t, TexFormat, BindFlags)
        \/ T_Call_DXGI_FormatToTexFormat(t)
        \/ T_EnterInitializer(t)
        \/ T_PassInitializer(t)
        \/ T_InitializerStep(t)
        \/ \E DXGIFormat \in ConcDXGIFormatInputs : T_InverseLookup(t, DXGIFormat)

SpecConc == Init /\ [][NextConc]_vars

(***************************************************************************)
(* Properties of the single-threaded calls.                                *)
(***************************************************************************)
ForwardMsg == "TexFormatToDXGI_Format: Unsupported texture format"
ForwardRangeMsg == "TexFormatToDXGI_Format: Texture format is out of allowed range"
InverseRangeMsg == "DXGI_FormatToTexFormat: DXGI texture format is out of allowed range"

IsForwardCall == lastCall.fn = "TexFormatToDXGI_Format"
IsInverseCall == lastCall.fn = "DXGI_FormatToTexFormat"
IsCorrectCall == lastCall.fn = "CorrectDXGIFormat"

\* e is the last format, in enumeration order, among those with its native value
IsLastContributor(e) ==
    \A e2 \in TexFormats : e2 > e => FmtToDXGIFmtMap[e2] # FmtToDXGIFmtMap[e]

\* C1: once the inverse table is built, every engine format that is the last
\* one in enumeration order with its native value round-trips: the inverse
\* table, at the native value the forward call gives for it, holds that format,
\* and DXGI_FormatToTexFormat returns it whenever it accepts the native value.
C1_RoundTripCanonical ==
    Initializer = "done" =>
        \A e \in TexFormats :
            IsLastContributor(e) =>
                LET n == TexFormatLookup(FmtToDXGIFmtMap, e, 0).ret
                IN  /\ DXGIFmtToFmtMap[n] = e
                    /\ DXGIFormatLookup(DXGIFmtToFmtMap, FmtToDXGIFmtMap, n).ret = e

\* a collided native value decodes to the last of the engine formats mapped to it
C1_Witness ==
    /\ Initializer = "done"
    /\ IsInverseCall
    /\ lastCall.arg = TexFormatLookup(FmtToDXGIFmtMap, TEX_FORMAT_ETC2_RGBA8_UNORM_SRGB, 0).ret
    /\ lastCall.arg = TexFormatLookup(FmtToDXGIFmtMap, TEX_FORMAT_ETC2_RGB8_UNORM, 0).ret
    /\ lastCall.ret = TEX_FORMAT_ETC2_RGBA8_UNORM_SRGB

\* C2: DXGI_FormatToTexFormat(DXGI_FORMAT_UNKNOWN) returns TEX_FORMAT_UNKNOWN, and
\* the Unknown slot of the built inverse table holds TEX_FORMAT_UNKNOWN.
C2_UnknownMapsToUnknown ==
    /\ (IsInverseCall /\ lastCall.arg = DXGI_FORMAT_UNKNOWN) => lastCall.ret = TEX_FORMAT_UNKNOWN
    /\ Initializer = "done" => DXGIFmtToFmtMap[DXGI_FORMAT_UNKNOWN] = TEX_FORMAT_UNKNOWN

\* C3: once both tables are built, the inverse table holds e at the forward
\* entry of every engine format e whose forward entry is not DXGI_FORMAT_UNKNOWN.
C3_InverseTableInvariant ==
    (bFormatMapInitialized /\ Initializer = "done") =>
        \A e \in TexFormats :
            FmtToDXGIFmtMap[e] # DXGI_FORMAT_UNKNOWN => DXGIFmtToFmtMap[FmtToDXGIFmtMap[e]] = e

C3_Witness ==
    /\ bFormatMapInitialized
    /\ Initializer = "done"
    /\ FmtToDXGIFmtMap[TEX_FORMAT_RGBA8_UNORM] = DXGI_FORMAT_R8G8B8A8_UNORM
    /\ IsInverseCall
    /\ lastCall.arg = DXGI_FORMAT_R8G8B8A8_UNORM
    /\ lastCall.ret = TEX_FORMAT_RGBA8_UNORM

OutOfRangeForwardCall ==
    IsForwardCall /\ (lastCall.arg < 0 \/ lastCall.arg >= TEX_FORMAT_NUM_FORMATS)

OutOfRangeInverseCall ==
    IsInverseCall /\
    (lastCall.arg < 0 \/ lastCall.arg > DXGIFormatValue["DXGI_FORMAT_BC7_UNORM_SRGB"])

InRangeForwardCallNoFlags ==
    IsForwardCall /\ lastCall.arg \in TexFormats /\ lastCall.flags = 0

\* C7 as stated: every in-range engine format other than TEX_FORMAT_UNKNOWN
\* that the forward table maps to DXGI_FORMAT_UNKNOWN gets the diagnostic; only
\* TEX_FORMAT_UNKNOWN returns Unknown without one.
C7_UnmappedFormatIsReported ==
    InRangeForwardCallNoFlags =>
        /\ (lastCall.arg # TEX_FORMAT_UNKNOWN /\ FmtToDXGIFmtMap[lastCall.arg] = DXGI_FORMAT_UNKNOWN)
               => ForwardMsg \in lastCall.diag
        /\ (lastCall.ret = DXGI_FORMAT_UNKNOWN /\ lastCall.diag = {})
               => lastCall.arg = TEX_FORMAT_UNKNOWN

\* C7, amended: the diagnostic is reported exactly for a format in
\* (TEX_FORMAT_UNKNOWN, TEX_FORMAT_BC7_UNORM_SRGB] that the table maps to Unknown;
\* the formats above TEX_FORMAT_BC7_UNORM_SRGB, like TEX_FORMAT_UNKNOWN, return
\* DXGI_FORMAT_UNKNOWN without any diagnostic.
C7_UnmappedReportedUpToBC7 ==
    InRangeForwardCallNoFlags =>
        /\ ForwardMsg \in lastCall.diag <=>
               /\ lastCall.arg # TEX_FORMAT_UNKNOWN
               /\ lastCall.arg <= TexFormatValue["TEX_FORMAT_BC7_UNORM_SRGB"]
               /\ FmtToDXGIFmtMap[lastCall.arg] = DXGI_FORMAT_UNKNOWN
        /\ (lastCall.arg = TEX_FORMAT_UNKNOWN
               \/ lastCall.arg > TexFormatValue["TEX_FORMAT_BC7_UNORM_SRGB"])
               => (lastCall.ret = DXGI_FORMAT_UNKNOWN /\ lastCall.diag = {})

C7_Witness ==
    /\ InRangeForwardCallNoFlags
    /\ lastCall.arg = TEX_FORMAT_ETC2_RGB8_UNORM
    /\ FmtToDXGIFmtMap[lastCall.arg] = DXGI_FORMAT_UNKNOWN
    /\ lastCall.ret = DXGI_FORMAT_UNKNOWN
    /\ lastCall.diag = {}

\* the forward table as the construction body leaves it
BuiltFormatMap == BuildFormatMap(EmptyFormatMap)

\* C8: a step that is an in-range call of TexFormatToDXGI_Format returns the
\* forward-table entry when no bind flag is given and the corrected entry
\* otherwise, the same value whether or not the table was built before the
\* call, and changes nothing but the one-time construction of the forward table.
C8_ForwardCall ==
    [][(lastCall'.fn = "TexFormatToDXGI_Format" /\ lastCall'.arg \in TexFormats) =>
         LET e == lastCall'.arg
             B == lastCall'.flags
         IN  /\ lastCall'.ret = IF B = 0 THEN FmtToDXGIFmtMap'[e]
                                ELSE CorrectDXGIFormat(FmtToDXGIFmtMap'[e], B)
             /\ lastCall'.ret = IF B = 0 THEN BuiltFormatMap[e]
                                ELSE CorrectDXGIFormat(BuiltFormatMap[e], B)
             /\ bFormatMapInitialized => FmtToDXGIFmtMap' = FmtToDXGIFmtMap
             /\ bFormatMapInitialized'
             /\ DXGIFmtToFmtMap' = DXGIFmtToFmtMap
             /\ Initializer' = Initializer]_vars

C8_Witness ==
    /\ IsForwardCall
    /\ lastCall.arg = TEX_FORMAT_D32_FLOAT
    /\ lastCall.flags = BIND_SHADER_RESOURCE
    /\ FmtToDXGIFmtMap[lastCall.arg] = DXGI_FORMAT_D32_FLOAT
    /\ lastCall.ret = DXGI_FORMAT_R32_FLOAT

\* the four depth families: typeless base, depth format, shader-readable format,
\* and the other shader-readable views
DepthFamilies == {
    [base |-> DXGI_FORMAT_R32_TYPELESS, depth |-> DXGI_FORMAT_D32_FLOAT,
     readable |-> DXGI_FORMAT_R32_FLOAT, views |-> {}],
    [base |-> DXGI_FORMAT_R24G8_TYPELESS, depth |-> DXGI_FORMAT_D24_UNORM_S8_UINT,
     readable |-> DXGI_FORMAT_R24_UNORM_X8_TYPELESS,
     views |-> {DXGI_FORMAT_X24_TYPELESS_G8_UINT}],
    [base |-> DXGI_FORMAT_R16_TYPELESS, depth |-> DXGI_FORMAT_D16_UNORM,
     readable |-> DXGI_FORMAT_R16_UNORM, views |-> {}],
    [base |-> DXGI_FORMAT_R32G8X24_TYPELESS, depth |-> DXGI_FORMAT_D32_FLOAT_S8X24_UINT,
     readable |-> DXGI_FORMAT_R32_FLOAT_X8X24_TYPELESS,
     views |-> {DXGI_FORMAT_X32_TYPELESS_G8X24_UINT}]}

FamilyMembers(F) == {F.base, F.depth, F.readable} \cup F.views

\* C9: with BIND_DEPTH_STENCIL and at least one other flag, CorrectDXGIFormat
\* returns the typeless base of the family for every member of the family,
\* the base itself included: no later pass narrows the value.
C9_TypelessNormalization ==
    (IsCorrectCall /\ HasFlag(lastCall.flags, BIND_DEPTH_STENCIL)
                   /\ lastCall.flags # BIND_DEPTH_STENCIL) =>
        \A F \in DepthFamilies :
            lastCall.arg \in FamilyMembers(F) => lastCall.ret = F.base

C9_Witness ==
    /\ IsCorrectCall
    /\ lastCall.flags = BIND_DEPTH_STENCIL + BIND_SHADER_RESOURCE
    /\ lastCall.arg = DXGI_FORMAT_D24_UNORM_S8_UINT
    /\ lastCall.ret = DXGI_FORMAT_R24G8_TYPELESS

\* C10: with exactly BIND_DEPTH_STENCIL the typeless base and every
\* shader-readable view of a family go to the family's depth format; with exactly
\* BIND_SHADER_RESOURCE or exactly BIND_UNORDERED_ACCESS the typeless base and
\* the depth format go to the family's shader-readable format.
C10_SingleUseNarrowing ==
    IsCorrectCall =>
        \A F \in DepthFamilies :
            /\ (lastCall.flags = BIND_DEPTH_STENCIL
                  /\ lastCall.arg \in {F.base, F.readable} \cup F.views)
                   => lastCall.ret = F.depth
            /\ (lastCall.flags \in {BIND_SHADER_RESOURCE, BIND_UNORDERED_ACCESS}
                  /\ lastCall.arg \in {F.base, F.depth})
                   => lastCall.ret = F.readable

C10_Witness ==
    /\ IsCorrectCall
    /\ lastCall.flags = BIND_UNORDERED_ACCESS
    /\ lastCall.arg = DXGI_FORMAT_D32_FLOAT_S8X24_UINT
    /\ lastCall.ret = DXGI_FORMAT_R32_FLOAT_X8X24_TYPELESS

CorrectMsg == "CorrectDXGIFormat: Unsupported depth-stencil format"

\* the formats of the four depth families
AllFamilyMembers == UNION {FamilyMembers(F) : F \in DepthFamilies}

\* C11: CorrectDXGIFormat returns a native format that belongs to none of the
\* four depth families unchanged, whatever the bind flags; the call reports the
\* unexpected-format diagnostic exactly when the flags hold BIND_DEPTH_STENCIL
\* together with another flag, and still returns the unchanged format.
C11_PassThrough ==
    (IsCorrectCall /\ lastCall.arg \notin AllFamilyMembers) =>
        /\ lastCall.ret = lastCall.arg
        /\ lastCall.diag =
               IF HasFlag(lastCall.flags, BIND_DEPTH_STENCIL)
                  /\ lastCall.flags # BIND_DEPTH_STENCIL
               THEN {CorrectMsg} ELSE {}

\* a colour format asked for as depth-stencil and shader resource
C11_Witness ==
    /\ IsCorrectCall
    /\ lastCall.arg = DXGI_FORMAT_R8G8B8A8_UNORM
    /\ lastCall.flags = BIND_DEPTH_STENCIL + BIND_SHADER_RESOURCE
    /\ lastCall.diag = {CorrectMsg}
    /\ lastCall.ret = DXGI_FORMAT_R8G8B8A8_UNORM

\* C12: every call ColorSpaceToDXGIColorSpace(COLOR_SPACE_HDR10_ST2084) returns
\* DXGI_COLOR_SPACE_RGB_FULL_G2084_NONE_P2020, every call
\* DXGIColorSpaceToColorSpace(DXGI_COLOR_SPACE_RGB_FULL_G2084_NONE_P2020) returns
\* COLOR_SPACE_HDR10_ST2084, and feeding the value returned for
\* COLOR_SPACE_HDR10_ST2084 back gives COLOR_SPACE_HDR10_ST2084, whatever calls
\* were made before.
C12_HDR10RoundTrip ==
    [][/\ (lastCall'.fn = "ColorSpaceToDXGIColorSpace"
            /\ lastCall'.arg = COLOR_SPACE_HDR10_ST2084)
           => lastCall'.ret = DXGI_COLOR_SPACE_RGB_FULL_G2084_NONE_P2020
       /\ (lastCall'.fn = "DXGIColorSpaceToColorSpace"
            /\ lastCall'.arg = DXGI_COLOR_SPACE_RGB_FULL_G2084_NONE_P2020)
           => lastCall'.ret = COLOR_SPACE_HDR10_ST2084
       /\ (lastCall.fn = "ColorSpaceToDXGIColorSpace"
            /\ lastCall.arg = COLOR_SPACE_HDR10_ST2084
            /\ lastCall'.fn = "DXGIColorSpaceToColorSpace"
            /\ lastCall'.arg = lastCall.ret)
           => lastCall'.ret = COLOR_SPACE_HDR10_ST2084]_vars

\* the native value decoded after both format tables were built by earlier calls
C12_Witness ==
    /\ bFormatMapInitialized
    /\ Initializer = "done"
    /\ lastCall.fn = "DXGIColorSpaceToColorSpace"
    /\ lastCall.arg = ColorSpaceToDXGIColorSpace(COLOR_SPACE_HDR10_ST2084)
    /\ lastCall.arg = DXGI_COLOR_SPACE_RGB_FULL_G2084_NONE_P2020
    /\ lastCall.ret = COLOR_SPACE_HDR10_ST2084

\* C13: every call of DXGI_FormatToTexFormat on a native format in
\* [DXGI_FORMAT_UNKNOWN, DXGI_FORMAT_BC7_UNORM_SRGB] passes its checks and those
\* of the constructor it may run: it reports nothing, returns TEX_FORMAT_UNKNOWN
\* for no format but DXGI_FORMAT_UNKNOWN, and TexFormatToDXGI_Format of the
\* returned format is the native format; once the inverse table is built every
\* forward result is at most DXGI_FORMAT_B4G4R4A4_UNORM, a slot of the table.
C13_InverseCallChecksHold ==
    /\ (IsInverseCall /\ lastCall.arg >= DXGI_FORMAT_UNKNOWN
                      /\ lastCall.arg <= DXGIFormatValue["DXGI_FORMAT_BC7_UNORM_SRGB"]) =>
           /\ lastCall.diag = {}
           /\ lastCall.ret = TEX_FORMAT_UNKNOWN => lastCall.arg = DXGI_FORMAT_UNKNOWN
           /\ TexFormatLookup(FmtToDXGIFmtMap, lastCall.ret, 0).ret = lastCall.arg
    /\ Initializer = "done" =>
           \A fmt \in TexFormats :
               LET DXGIFmt == TexFormatLookup(FmtToDXGIFmtMap, fmt, 0).ret
               IN  /\ DXGIFmt <= DXGI_FORMAT_B4G4R4A4_UNORM
                   /\ DXGIFmt \in DOMAIN DXGIFmtToFmtMap

\* the last in-range native format, decoded with every check passed
C13_Witness ==
    /\ Initializer = "done"
    /\ IsInverseCall
    /\ lastCall.arg = DXGI_FORMAT_BC7_UNORM_SRGB
    /\ lastCall.ret = TEX_FORMAT_BC7_UNORM_SRGB
    /\ lastCall.diag = {}
    /\ TexFormatLookup(FmtToDXGIFmtMap, lastCall.ret, 0).ret = lastCall.arg

\* C14: calling CorrectDXGIFormat again on the format it returned, with the
\* same bind flags, returns that format again; and every call returns a format
\* of the depth family of its argument, or the argument itself when the
\* argument is in no family.
C14_Idempotent ==
    [][/\ (lastCall.fn = "CorrectDXGIFormat"
            /\ lastCall'.fn = "CorrectDXGIFormat"
            /\ lastCall'.arg = lastCall.ret
            /\ lastCall'.flags = lastCall.flags)
           => lastCall'.ret = lastCall.ret
       /\ lastCall'.fn = "CorrectDXGIFormat" =>
           /\ \A F \in DepthFamilies :
                  lastCall'.arg \in FamilyMembers(F) => lastCall'.ret \in FamilyMembers(F)
           /\ lastCall'.arg \notin AllFamilyMembers => lastCall'.ret = lastCall'.arg]_vars

\* the depth format a first call narrowed a typeless base to, given again
C14_Witness ==
    /\ IsCorrectCall
    /\ lastCall.flags = BIND_DEPTH_STENCIL
    /\ lastCall.arg = CorrectDXGIFormat(DXGI_FORMAT_R32G8X24_TYPELESS, BIND_DEPTH_STENCIL)
    /\ lastCall.arg = DXGI_FORMAT_D32_FLOAT_S8X24_UINT
    /\ lastCall.ret = DXGI_FORMAT_D32_FLOAT_S8X24_UINT

\* the three passes of CorrectDXGIFormat in the order Order, a sequence of
\* "typeless", "depth" and "readable"
RECURSIVE PassesInOrder(_, _, _)
PassesInOrder(Order, DXGIFormat, BindFlags) ==
    IF Order = <<>> THEN DXGIFormat
    ELSE LET f == CASE Head(Order) = "typeless" -> TypelessPass(DXGIFormat, BindFlags)
                    [] Head(Order) = "depth"    -> DepthPass(DXGIFormat, BindFlags)
                    [] Head(Order) = "readable" -> ShaderReadablePass(DXGIFormat, BindFlags)
         IN  PassesInOrder(Tail(Order), f, BindFlags)

PassOrders ==
    {Order \in [1..3 -> {"typeless", "depth", "readable"}] :
        \A i, j \in 1..3 : i # j => Order[i] # Order[j]}

\* the guards of the three passes that the bind flags enable
EnabledPasses(BindFlags) ==
    {p \in {"typeless", "depth", "readable"} :
        \/ p = "typeless" /\ IsDepthStencilCombined(BindFlags)
        \/ p = "depth" /\ IsDepthStencilOnly(BindFlags)
        \/ p = "readable" /\ IsShaderReadOnly(BindFlags)}

\* C15: the bind flags of a call of CorrectDXGIFormat enable at most one of the
\* three passes, so the call returns what the three passes return in any order;
\* flags without BIND_DEPTH_STENCIL that are neither exactly
\* BIND_SHADER_RESOURCE nor exactly BIND_UNORDERED_ACCESS enable no pass, and
\* the call returns its argument.
C15_AtMostOnePass ==
    IsCorrectCall =>
        /\ Cardinality(EnabledPasses(lastCall.flags)) <= 1
        /\ \A Order \in PassOrders :
               lastCall.ret = PassesInOrder(Order, lastCall.arg, lastCall.flags)
        /\ (~HasFlag(lastCall.flags, BIND_DEPTH_STENCIL)
              /\ lastCall.flags \notin {BIND_SHADER_RESOURCE, BIND_UNORDERED_ACCESS}) =>
               /\ EnabledPasses(lastCall.flags) = {}
               /\ lastCall.ret = lastCall.arg

\* a depth format asked for as shader resource and unordered access together
C15_Witness ==
    /\ IsCorrectCall
    /\ lastCall.flags = BIND_SHADER_RESOURCE + BIND_UNORDERED_ACCESS
    /\ lastCall.arg = DXGI_FORMAT_D32_FLOAT
    /\ EnabledPasses(lastCall.flags) = {}
    /\ lastCall.ret = DXGI_FORMAT_D32_FLOAT

(***************************************************************************)
(* Properties of concurrent first use (SpecConc).                          *)
(***************************************************************************)
\* the inverse table as the constructor leaves it on the built forward table
BuiltInverseMap == InitializerLoop(EmptyInverseMap, BuiltFormatMap)

\* C4: the construction body of the forward table is executed at most once, and
\* no store to the forward table is executed once bFormatMapInitialized is set.
C4_BuiltOnceNoLateStore ==
    /\ bodyRuns <= 1
    /\ ~storeAfterFlag

\* C5: every call that returned gave the value and the diagnostics that the
\* same call gives single-threaded on the fully built tables (it read no table
\* slot ahead of the slot's final value).
C5_CallsSeeBuiltTables ==
    /\ IsForwardCall =>
           LET r == TexFormatLookup(BuiltFormatMap, lastCall.arg, lastCall.flags)
           IN  lastCall.ret = r.ret /\ lastCall.diag = r.diag
    /\ IsInverseCall =>
           LET r == DXGIFormatLookup(BuiltInverseMap, BuiltFormatMap, lastCall.arg)
           IN  lastCall.ret = r.ret /\ lastCall.diag = r.diag

====
